---- MODULE Spec2Model ----
(***************************************************************************)
(* Model of the Nexalyze research agent: the three task endpoints of       *)
(* app/api/routes_tasks.py, the pipelines of                               *)
(* app/services/agent_orchestrator.py with the tools they call, and the    *)
(* Task rows they persist.                                                  *)
(*                                                                         *)
(* One process is one HTTP request.  Its task_id is a fresh uuid, so the   *)
(* process identity stands for the task identity.  Every statement group   *)
(* of a pipeline is one action; what a tool swallows in its own            *)
(* try/except never reaches the orchestrator, what it leaves unguarded     *)
(* may raise with any message.                                             *)
(*                                                                         *)
(* Specifications:                                                         *)
(*   Spec             one request through its endpoint and pipeline        *)
(*   SpecConcurrent   a text and a document request, steps interleaved     *)
(*   SpecForecasting  Step 6 of two requests, the calls on the forecast    *)
(*                    model taken apart into fit, predict and slope read   *)
(*   SpecPlanner      LLMClient.interpret_task on its own                  *)
(*   SpecSentiment    SentimentMLModel.predict on its own                  *)
(*   SpecAggregate    the per-article scoring and the overall sentiment    *)
(*   SpecTrend        TrendForecastModel.predict_trend on its own          *)
(* Probabilities and scores are exact fractions: integer numerators over   *)
(* a stated denominator.                                                   *)
(***************************************************************************)
EXTENDS Integers, Sequences, FiniteSets, TLC

\* ------------------------------------------------------------------ bounds
\* most articles a news search returns
MaxArticles == 3
\* most numeric columns of a dataset
MaxNumericCols == 2
\* probabilities of the classifier are multiples of 1/ProbScale
ProbScale == 4
\* most lexicon words of one kind found in a text
MaxMatches == 3
\* most historical scores passed to predict_trend
MaxPoints == 4
\* most non-missing values of a column given to detect_patterns
MaxValues == 12
\* most points of a series given to the anomaly detectors
MaxSeries == 12

\* Every request builds its own AgentOrchestrator, session and Task under a
\* fresh task_id: Spec follows one request in flight, SpecConcurrent two.
Procs == {1}

\* ------------------------------------------------------------- vocabulary
Null == "null"

\* str(e) of the errors an unguarded statement can raise: an error built
\* without arguments has the empty message, KeyError('shape') prints 'shape'
Msgs == {"", "boom"}
KeyErrorShape == "'shape'"

\* file names as character sequences, so that endswith / lower / split act
\* on them as in the source
F_pdf == <<"r", ".", "p", "d", "f">>
F_PDF == <<"R", ".", "P", "D", "F">>
F_docx == <<"r", ".", "d", "o", "c", "x">>
F_txt == <<"r", ".", "t", "x", "t">>
F_md == <<"r", ".", "m", "d">>
F_csv == <<"d", ".", "c", "s", "v">>
F_xlsx == <<"d", ".", "x", "l", "s", "x">>
F_xls == <<"d", ".", "x", "l", "s">>
Filenames == {F_pdf, F_PDF, F_docx, F_txt, F_md, F_csv, F_xlsx, F_xls}
NoFile == <<>>

Kinds == {"text", "doc", "data"}

PROCESSING == "processing"
COMPLETED == "completed"
FAILED == "failed"
Terminal == {COMPLETED, FAILED}

\* ---------------------------------------------------------------- strings
EndsWith(s, suffix) ==
    /\ Len(s) >= Len(suffix)
    /\ SubSeq(s, Len(s) - Len(suffix) + 1, Len(s)) = suffix

UpperCase ==
    <<"A", "B", "C", "D", "E", "F", "G", "H", "I", "J", "K", "L", "M",
      "N", "O", "P", "Q", "R", "S", "T", "U", "V", "W", "X", "Y", "Z">>
LowerCase ==
    <<"a", "b", "c", "d", "e", "f", "g", "h", "i", "j", "k", "l", "m",
      "n", "o", "p", "q", "r", "s", "t", "u", "v", "w", "x", "y", "z">>

LowerChar(c) ==
    IF \E i \in 1..Len(UpperCase) : UpperCase[i] = c
    THEN LowerCase[CHOOSE i \in 1..Len(UpperCase) : UpperCase[i] = c]
    ELSE c

Lower(s) == [i \in 1..Len(s) |-> LowerChar(s[i])]

\* filename.lower().split('.')[-1]
RECURSIVE LastDot(_, _)
LastDot(s, i) ==
    IF i = 0 THEN 0
    ELSE IF s[i] = "." THEN i
    ELSE LastDot(s, i - 1)

FileExtension(filename) ==
    LET l == Lower(filename)
        d == LastDot(l, Len(l))
    IN SubSeq(l, d + 1, Len(l))

\* ------------------------------------------------------ routes_tasks.py
DocExtensions == {<<".", "p", "d", "f">>, <<".", "d", "o", "c", "x">>, <<".", "t", "x", "t">>}
DataExtensions == {<<".", "c", "s", "v">>, <<".", "x", "l", "s", "x">>, <<".", "x", "l", "s">>}

allowed_extensions(k) ==
    IF k = "doc" THEN DocExtensions
    ELSE IF k = "data" THEN DataExtensions
    ELSE {}

\* any(file.filename.endswith(ext) for ext in allowed_extensions)
ExtensionAllowed(k, filename) ==
    \E ext \in allowed_extensions(k) : EndsWith(filename, ext)

\* (one allow-list shared by the two upload endpoints)
PassesValidationSharedList(k, filename) ==
    k = "text" \/ \E ext \in DocExtensions \cup DataExtensions : EndsWith(filename, ext)

\* the text endpoint has no upload and no validation
PassesValidation(k, filename) ==
    k = "text" \/ ExtensionAllowed(k, filename)

\* an exception travelling up the stack: its class, the status code of an
\* HTTPException, str(e), and (for the record) the statement group that
\* raised it and whether it came out of an LLMClient method
Exc(cls, code, msg, at, origin) ==
    [cls |-> cls, code |-> code, msg |-> msg, at |-> at, origin |-> origin]
NoExc == Exc(Null, 0, Null, Null, Null)

\* (the id made of the date alone)
TaskIdOfDay(p) == 1

\* task_id = "T-<date>-<first 8 characters of a fresh uuid4>": one id per
\* request, taken to be different from every other request's
TaskId(p) == p

\* get_task: db.query(Task).filter(Task.task_id == task_id).first()
GetTask(st, p) == st[TaskId(p)]

\* `except Exception as e: raise HTTPException(status_code=500, ...)`: the
\* handler catches every Exception, the HTTPException of the validation
\* included, and answers 500
HandlerStatus(e) == 500

\* --------------------------------------------------------- db/models.py
NoCharts == [present |-> FALSE, items |-> <<>>]
NoMeta == [present |-> FALSE, count |-> 0]

\* (status left to the column default, "pending")
NewTaskColumnDefault(k) ==
    [status |-> "pending", task_type |-> k, summary |-> Null,
     sentiment_summary |-> Null, forecast |-> Null, report_url |-> Null,
     charts |-> NoCharts, task_metadata |-> NoMeta, error |-> Null,
     completed_at |-> Null]

\* Task(task_id=..., status=PROCESSING, task_type=..., query=...)
NewTask(k) ==
    [status |-> PROCESSING, task_type |-> k, summary |-> Null,
     sentiment_summary |-> Null, forecast |-> Null, report_url |-> Null,
     charts |-> NoCharts, task_metadata |-> NoMeta, error |-> Null,
     completed_at |-> Null]

NoTask == [NewTask(Null) EXCEPT !.status = Null]

\* --------------------------------------------------- results of a call
Ok(v) == [exc |-> Null, val |-> v]
Raise(m) == [exc |-> m, val |-> Null]

\* ------------------------------------------------------ genai/llm_client.py
\* self.client is None without an API key; a present client's
\* chat.completions.create either answers or raises
LLMOutcomes == {"ok", "raises"}

\* `word in query_lower`: substring test
Contains(s, w) ==
    \E i \in 0..(Len(s) - Len(w)) : \A j \in 1..Len(w) : s[i + j] = w[j]

\* any(word in query_lower for word in words)
AnyIn(words, s) == \E w \in words : Contains(s, w)

\* the keyword lists of _fallback_interpret
HighlightWords ==
    {<<"h", "i", "g", "h", "l", "i", "g", "h", "t">>,
     <<"h", "e", "a", "d", "l", "i", "n", "e", "s">>,
     <<"t", "o", "p", " ", "n", "e", "w", "s">>,
     <<"b", "r", "e", "a", "k", "i", "n", "g">>,
     <<"m", "a", "j", "o", "r">>}

SentimentWords ==
    {<<"s", "e", "n", "t", "i", "m", "e", "n", "t">>,
     <<"f", "e", "e", "l", "i", "n", "g">>,
     <<"o", "p", "i", "n", "i", "o", "n">>,
     <<"p", "e", "r", "c", "e", "p", "t", "i", "o", "n">>}

TrendWords ==
    {<<"t", "r", "e", "n", "d">>,
     <<"p", "a", "t", "t", "e", "r", "n">>,
     <<"d", "i", "r", "e", "c", "t", "i", "o", "n">>,
     <<"m", "o", "m", "e", "n", "t", "u", "m">>}

TodayWords ==
    {<<"t", "o", "d", "a", "y">>,
     <<"t", "o", "d", "a", "y", "'", "s">>,
     <<"c", "u", "r", "r", "e", "n", "t">>}

RecentWords ==
    {<<"r", "e", "c", "e", "n", "t">>,
     <<"l", "a", "t", "e", "s", "t">>,
     <<"p", "a", "s", "t", " ", "f", "e", "w", " ", "d", "a", "y", "s">>}

WeekWords ==
    {<<"w", "e", "e", "k">>,
     <<"w", "e", "e", "k", "l", "y">>}

MonthWords ==
    {<<"m", "o", "n", "t", "h">>,
     <<"m", "o", "n", "t", "h", "l", "y">>}

NewsWords ==
    {<<"n", "e", "w", "s">>,
     <<"a", "r", "t", "i", "c", "l", "e">>,
     <<"s", "e", "n", "t", "i", "m", "e", "n", "t">>,
     <<"s", "t", "o", "c", "k">>,
     <<"m", "a", "r", "k", "e", "t">>}

DocumentWords ==
    {<<"p", "d", "f">>,
     <<"d", "o", "c", "u", "m", "e", "n", "t">>,
     <<"p", "a", "p", "e", "r">>,
     <<"f", "i", "l", "e">>}

DataWords ==
    {<<"c", "s", "v">>,
     <<"e", "x", "c", "e", "l">>,
     <<"d", "a", "t", "a">>,
     <<"d", "a", "t", "a", "s", "e", "t">>}

\* (the sentiment keywords tested before the highlights keywords)
AnalysisFocusSentimentFirst(ql) ==
    IF AnyIn(SentimentWords, ql) THEN "sentiment"
    ELSE IF AnyIn(HighlightWords, ql) THEN "highlights"
    ELSE IF AnyIn(TrendWords, ql) THEN "trends"
    ELSE "comprehensive"

AnalysisFocus(ql) ==
    IF AnyIn(HighlightWords, ql) THEN "highlights"
    ELSE IF AnyIn(SentimentWords, ql) THEN "sentiment"
    ELSE IF AnyIn(TrendWords, ql) THEN "trends"
    ELSE "comprehensive"

TimeRange(ql) ==
    IF AnyIn(TodayWords, ql) THEN "today"
    ELSE IF AnyIn(RecentWords, ql) THEN "last_3_days"
    ELSE IF AnyIn(WeekWords, ql) THEN "last_7_days"
    ELSE IF AnyIn(MonthWords, ql) THEN "last_30_days"
    ELSE "last_7_days"

NewsActions ==
    <<"search_news", "analyze_sentiment", "predict_trends", "generate_report">>
DocumentActions == <<"extract_text", "summarize_text", "generate_report">>
DataActions ==
    <<"load_data", "analyze_patterns", "visualize_data", "generate_report">>
ResearchActions == <<"research", "summarize", "generate_report">>

\* task_type and actions are assigned together
TaskTypeAndActions(ql) ==
    IF AnyIn(NewsWords, ql) THEN <<"news_insight", NewsActions>>
    ELSE IF AnyIn(DocumentWords, ql) THEN <<"document_analysis", DocumentActions>>
    ELSE IF AnyIn(DataWords, ql) THEN <<"data_analysis", DataActions>>
    ELSE <<"general_research", ResearchActions>>

\* query[:100]
EntityChars == 100
Prefix(s, k) == SubSeq(s, 1, IF Len(s) < k THEN Len(s) ELSE k)

\* the plan of the keyword planner; `planner` tells which strategy made it
fallback_interpret(query) ==
    LET query_lower == Lower(query)
        tt == TaskTypeAndActions(query_lower)
    IN [task_type |-> tt[1], entity |-> Prefix(query, EntityChars),
        user_intent |-> query, analysis_focus |-> AnalysisFocus(query_lower),
        actions |-> tt[2], time_range |-> TimeRange(query_lower),
        planner |-> "fallback"]

\* the queries the planner is exercised with
Q_example ==
    <<"t", "o", "d", "a", "y", "'", "s", " ", "b", "i", "g", " ", "n", "e",
    "w", "s", " ", "h", "i", "g", "h", "l", "i", "g", "h", "t", "s">>
Q_caps ==
    <<"S", "e", "n", "t", "i", "m", "e", "n", "t", " ", "T", "R", "E", "N",
    "D", " ", "f", "o", "r", " ", "T", "e", "s", "l", "a", " ", "s", "t",
    "o", "c", "k", " ", "t", "h", "i", "s", " ", "w", "e", "e", "k">>
Q_dataset ==
    <<"l", "a", "t", "e", "s", "t", " ", "t", "r", "e", "n", "d", "s", " ",
    "i", "n", " ", "t", "h", "e", " ", "m", "o", "n", "t", "h", "l", "y",
    " ", "d", "a", "t", "a", "s", "e", "t">>
Q_paper ==
    <<"s", "u", "m", "m", "a", "r", "i", "z", "e", " ", "t", "h", "i", "s",
    " ", "P", "D", "F", " ", "p", "a", "p", "e", "r">>
Q_monthly ==
    <<"m", "o", "n", "t", "h", "l", "y", " ", "r", "e", "p", "o", "r", "t">>
Q_empty == <<>>
Q_newspaper ==
    <<"n", "e", "w", "s", "p", "a", "p", "e", "r", " ", "f", "i", "l", "e",
    " ", "d", "a", "t", "a">>
Q_opinion ==
    <<"o", "p", "i", "n", "i", "o", "n", " ", "o", "n", " ", "t", "h", "e",
    " ", "c", "u", "r", "r", "e", "n", "t", " ", "d", "i", "r", "e", "c",
    "t", "i", "o", "n", ",", " ", "r", "e", "c", "e", "n", "t", " ", "w",
    "e", "e", "k", "s">>
Q_weekly ==
    <<"w", "e", "e", "k", "l", "y", " ", "c", "s", "v", " ", "m", "o", "m",
    "e", "n", "t", "u", "m">>
Q_breaking ==
    <<"b", "r", "e", "a", "k", "i", "n", "g", ":", " ", "p", "u", "b", "l",
    "i", "c", " ", "p", "e", "r", "c", "e", "p", "t", "i", "o", "n", " ",
    "o", "f", " ", "t", "h", "e", " ", "p", "a", "t", "t", "e", "r", "n",
    " ", "i", "n", " ", "e", "x", "c", "e", "l", " ", "f", "i", "l", "e",
    "s">>
Q_long ==
    <<"c", "o", "m", "p", "a", "r", "e", " ", "t", "h", "e", " ", "q", "u",
    "a", "r", "t", "e", "r", "l", "y", " ", "r", "e", "v", "e", "n", "u",
    "e", " ", "o", "f", " ", "e", "v", "e", "r", "y", " ", "e", "u", "r",
    "o", "p", "e", "a", "n", " ", "c", "a", "r", " ", "m", "a", "k", "e",
    "r", " ", "w", "i", "t", "h", " ", "t", "h", "e", " ", "q", "u", "a",
    "r", "t", "e", "r", "l", "y", " ", "r", "e", "v", "e", "n", "u", "e",
    " ", "o", "f", " ", "t", "h", "e", "i", "r", " ", "s", "u", "p", "p",
    "l", "i", "e", "r", "s", ",", " ", "h", "e", "a", "d", "l", "i", "n",
    "e", "s", " ", "o", "f", " ", "t", "h", "e", " ", "m", "o", "n", "t",
    "h">>

Queries ==
    {Q_example, Q_caps, Q_dataset, Q_paper,
     Q_monthly, Q_empty, Q_newspaper, Q_opinion,
     Q_weekly, Q_breaking, Q_long}

\* the content of the reply, as the pieces the parsing tells apart: fence
\* markers, prose, and a body that is a JSON object with task_type, a JSON
\* object without it, a JSON array, or not JSON at all
\* the opening marker with the json tag, and the bare marker
FENCE_JSON == "fence_json"
FENCE == "fence"
PlanReplies ==
    {<<"object_plan">>,
     <<FENCE_JSON, "object_plan", FENCE>>,
     <<FENCE, "object_plan", FENCE>>,
     <<"prose", FENCE_JSON, "object_plan", FENCE, "prose">>}
UnparseableReplies ==
    {<<>>,
     <<"not_json">>,
     <<FENCE_JSON, "not_json", FENCE>>,
     <<FENCE, "not_json", FENCE>>,
     <<"prose", "object_plan">>,
     <<FENCE, "prose", "object_plan", FENCE>>}
NoTaskTypeReplies ==
    {<<"object_no_task_type">>,
     <<FENCE_JSON, "object_no_task_type", FENCE>>,
     <<"array">>}
Replies == PlanReplies \cup UnparseableReplies \cup NoTaskTypeReplies

RECURSIVE IndexOf(_, _, _)
IndexOf(s, tok, i) ==
    IF i > Len(s) THEN 0
    ELSE IF s[i] = tok THEN i
    ELSE IndexOf(s, tok, i + 1)

\* content.split(marker)[1], then what precedes the next bare marker
Between(content, marker) ==
    LET a == IndexOf(content, marker, 1)
        rest == SubSeq(content, a + 1, Len(content))
        b == IndexOf(rest, FENCE, 1)
    IN IF b = 0 THEN rest ELSE SubSeq(rest, 1, b - 1)

StripFence(content) ==
    IF IndexOf(content, FENCE_JSON, 1) # 0 THEN Between(content, FENCE_JSON)
    ELSE IF IndexOf(content, FENCE, 1) # 0 THEN Between(content, FENCE)
    ELSE content

\* json.loads: one JSON value and nothing else
json_loads(content) ==
    IF Len(content) = 1
       /\ content[1] \in {"object_plan", "object_no_task_type", "array"}
    THEN Ok(content[1])
    ELSE Raise("JSONDecodeError")

\* task_plan['task_type']: KeyError on an object without the key, TypeError
\* on a value that is not an object
TaskTypeOf(value) ==
    IF value = "object_plan" THEN Ok("news_insight")
    ELSE IF value = "object_no_task_type" THEN Raise("KeyError")
    ELSE Raise("TypeError")

\* the plan a reply carries
LLMPlan(query) ==
    [task_type |-> "news_insight", entity |-> Prefix(query, 5),
     user_intent |-> query, analysis_focus |-> "summary",
     actions |-> NewsActions, time_range |-> "last_30_days",
     planner |-> "llm"]

\* the body of the try of interpret_task: which strategy answers, or what
\* is raised
InterpretPrimary(cl, call, reply) ==
    IF ~cl THEN Ok("fallback")
    ELSE IF call # "ok" THEN Raise("APIError")
    ELSE LET task_plan == json_loads(StripFence(reply))
         IN IF task_plan.exc # Null THEN task_plan
            ELSE IF TaskTypeOf(task_plan.val).exc # Null
                 THEN TaskTypeOf(task_plan.val)
                 ELSE Ok("llm")

\* except Exception: return self._fallback_interpret(query)
PlanSource(cl, call, reply) ==
    LET res == InterpretPrimary(cl, call, reply)
    IN IF res.exc # Null THEN Ok("fallback") ELSE res

\* (no except clause)
interpret_taskUncaught(cl, call, reply, query) ==
    LET res == InterpretPrimary(cl, call, reply)
    IN IF res.exc # Null THEN res
       ELSE IF res.val = "fallback" THEN Ok(fallback_interpret(query))
       ELSE Ok(LLMPlan(query))

\* interpret_task: the plan of the strategy that answers
interpret_task(cl, call, reply, query) ==
    IF PlanSource(cl, call, reply).val = "fallback"
    THEN Ok(fallback_interpret(query))
    ELSE Ok(LLMPlan(query))

\* (no try/except around the call)
summarizeUncaught(cl, call) ==
    IF ~cl THEN Ok("fallback")
    ELSE IF call = "ok" THEN Ok("llm")
    ELSE Raise("boom")

summarize(cl, call) ==
    IF ~cl THEN Ok("fallback")
    ELSE IF call = "ok" THEN Ok("llm")
    ELSE Ok("fallback")

generate_report(cl, call) ==
    IF ~cl THEN Ok("fallback")
    ELSE IF call = "ok" THEN Ok("llm")
    ELSE Ok("fallback")

analyze_news(cl, call) ==
    IF ~cl THEN Ok("fallback")
    ELSE IF call = "ok" THEN Ok("llm")
    ELSE Ok("fallback")

analyze_document(cl, call) ==
    IF ~cl THEN Ok("fallback")
    ELSE IF call = "ok" THEN Ok("llm")
    ELSE Ok("fallback")

analyze_data(cl, call) ==
    IF ~cl THEN Ok("fallback")
    ELSE IF call = "ok" THEN Ok("llm")
    ELSE Ok("fallback")

\* ------------------------------------------------------ ml/sentiment_ml.py
\* A SentimentResult holds its three probabilities and its confidence as
\* numerators over the common denominator den.
SentimentResult(pos, neu, neg, den, label, conf) ==
    [positive |-> pos, neutral |-> neu, negative |-> neg, den |-> den,
     label |-> label, confidence |-> conf]

Max2(a, b) == IF a >= b THEN a ELSE b
Max3(a, b, c) == Max2(a, Max2(b, c))

\* predict_proba of the three-class pipeline: <<negative, neutral, positive>>
\* in units of 1/ProbScale, summing to 1
Probas ==
    {pr \in (0..ProbScale) \X (0..ProbScale) \X (0..ProbScale) :
        pr[1] + pr[2] + pr[3] = ProbScale}

\* model.predict: a class of maximal probability (0, 1 or 2)
Predictions(proba) ==
    {c \in 0..2 : proba[c + 1] = Max3(proba[1], proba[2], proba[3])}

\* sentiment_map.get(prediction, "neutral")
sentiment_map(prediction) ==
    IF prediction = 0 THEN "negative"
    ELSE IF prediction = 1 THEN "neutral"
    ELSE IF prediction = 2 THEN "positive"
    ELSE "neutral"

\* the words found in a text: how many of each list, and which of the three
\* patterns; `record` with `high` or `growth` are two positive words, and
\* `profit-taking` holds the positive word `profit`
Matches ==
    {m \in [pos : 0..MaxMatches, neg : 0..MaxMatches, neu : 0..MaxMatches,
            contrast : BOOLEAN, record : BOOLEAN, sharp : BOOLEAN,
            profit_taking : BOOLEAN] :
        /\ m.record => m.pos >= 2
        /\ m.profit_taking => m.pos >= 1}

pos_count(m) == m.pos + (IF m.record THEN 2 ELSE 0)
neg_count(m) == m.neg + (IF m.sharp \/ m.profit_taking THEN 1 ELSE 0)
neutral_count(m) == m.neu + (IF m.contrast THEN 2 ELSE 0)

\* (the neutral probability left as computed)
NeutralProbNoFloor(count, total) == 10 * count

\* `neutral_prob = max(neutral_count / total, 0.1)`, in units of
\* 1/(10 * total)
NeutralProb(count, total) == Max2(10 * count, total)

\* (the tie between positive and negative given to negative)
LexiconLabelNegativeFirst(pos_prob, neg_prob, neutral_prob) ==
    LET max_prob == Max3(pos_prob, neg_prob, neutral_prob)
    IN IF neg_prob = max_prob THEN "negative"
       ELSE IF pos_prob = max_prob THEN "positive"
       ELSE "neutral"

\* lines 178-184: `if pos_prob == max_prob: ... elif neg_prob == max_prob:
\* ... else: ...`
LexiconLabel(pos_prob, neg_prob, neutral_prob) ==
    LET max_prob == Max3(pos_prob, neg_prob, neutral_prob)
    IN IF pos_prob = max_prob THEN "positive"
       ELSE IF neg_prob = max_prob THEN "negative"
       ELSE "neutral"

\* (the probabilities returned as computed, without dividing by their sum)
lexicon_fallbackUnnormalized(m) ==
    LET total == Max2(pos_count(m) + neg_count(m) + neutral_count(m), 1)
        pos_prob == 10 * pos_count(m)
        neg_prob == 10 * neg_count(m)
        neutral_prob == NeutralProb(neutral_count(m), total)
        max_prob == Max3(pos_prob, neg_prob, neutral_prob)
    IN SentimentResult(pos_prob, neutral_prob, neg_prob, 10 * total,
                       LexiconLabel(pos_prob, neg_prob, neutral_prob), max_prob)

\* pos_prob, neg_prob and neutral_prob in units of 1/(10 * total), so that
\* the floor 0.1 is `total`; dividing by total_prob makes total_prob the
\* denominator and leaves the order of the three as it was
lexicon_fallback(m) ==
    LET total == Max2(pos_count(m) + neg_count(m) + neutral_count(m), 1)
        pos_prob == 10 * pos_count(m)
        neg_prob == 10 * neg_count(m)
        neutral_prob == NeutralProb(neutral_count(m), total)
        total_prob == pos_prob + neg_prob + neutral_prob
        max_prob == Max3(pos_prob, neg_prob, neutral_prob)
    IN IF total_prob > 0
       THEN SentimentResult(pos_prob, neutral_prob, neg_prob, total_prob,
                            LexiconLabel(pos_prob, neg_prob, neutral_prob),
                            max_prob)
       ELSE SentimentResult(33, 34, 33, 100, "neutral", 34)

\* predict: the classifier's result, or the lexicon's when the classifier
\* raises
predict(raises, proba, prediction, m) ==
    IF raises THEN lexicon_fallback(m)
    ELSE SentimentResult(proba[3], proba[2], proba[1], ProbScale,
                         sentiment_map(prediction),
                         Max3(proba[1], proba[2], proba[3]))

\* --------------------- agent_orchestrator.py, Step 4: the overall sentiment
RECURSIVE SumOf(_, _)
SumOf(results, c) ==
    IF results = <<>> THEN 0
    ELSE results[1][c] + SumOf(Tail(results), c)

\* (the confidence averaged over the articles' confidences)
aggregateMeanConfidence(results) ==
    LET n == Len(results)
        pos == SumOf(results, "positive")
        neu == SumOf(results, "neutral")
        neg == SumOf(results, "negative")
        overall_label == IF pos >= neu /\ pos >= neg THEN "positive"
                         ELSE IF neu >= neg THEN "neutral"
                         ELSE "negative"
    IN IF n > 0
       THEN [positive |-> pos, neutral |-> neu, negative |-> neg,
             den |-> n * results[1].den, overall |-> overall_label,
             confidence |-> SumOf(results, "confidence")]
       ELSE [positive |-> 33, neutral |-> 34, negative |-> 33, den |-> 100,
             overall |-> "neutral", confidence |-> 34]

\* sum(...) / len(sentiment_results) per component, the results sharing one
\* denominator; max(avg_sentiment, key=avg_sentiment.get) returns the first
\* key of maximal value in the order positive, neutral, negative
aggregate(results) ==
    LET n == Len(results)
        pos == SumOf(results, "positive")
        neu == SumOf(results, "neutral")
        neg == SumOf(results, "negative")
        overall_label == IF pos >= neu /\ pos >= neg THEN "positive"
                         ELSE IF neu >= neg THEN "neutral"
                         ELSE "negative"
        avg == [positive |-> pos, neutral |-> neu, negative |-> neg]
    IN IF n > 0
       THEN [positive |-> pos, neutral |-> neu, negative |-> neg,
             den |-> n * results[1].den, overall |-> overall_label,
             confidence |-> avg[overall_label]]
       ELSE [positive |-> 33, neutral |-> 34, negative |-> 33, den |-> 100,
             overall |-> "neutral", confidence |-> 34]

\* ------------------------------------------------------ ml/forecast_model.py
\* Scores are multiples of 1/ScoreUnit; a value is a pair <<numerator,
\* denominator>> in that unit.
ScoreUnit == 1000
ScoreValues == {0, 500, 501, 502, 1000}

\* forecast_days of the orchestrator's calls
ForecastDays == 7
Horizons == {1, 2, ForecastDays}

RECURSIVE Sum(_)
Sum(scores) == IF scores = <<>> THEN 0 ELSE scores[1] + Sum(Tail(scores))

\* np.mean(sentiment_scores) if sentiment_scores else 0.5
MeanOrHalf(scores) ==
    IF scores = <<>> THEN <<ScoreUnit \div 2, 1>>
    ELSE <<Sum(scores), Len(scores)>>

\* [avg] * forecast_days, "stable"
Flat(scores, forecast_days) ==
    [predictions |-> [k \in 1..forecast_days |-> MeanOrHalf(scores)],
     trend |-> "stable"]

\* twice the distance of position i (from 0) to the mean position of n points
Centred(n, i) == 2 * i - (n - 1)

RECURSIVE Sxx(_, _)
Sxx(n, i) ==
    IF i = n THEN 0 ELSE Centred(n, i) * Centred(n, i) + Sxx(n, i + 1)

RECURSIVE Sxy(_, _)
Sxy(scores, i) ==
    IF i = Len(scores) THEN 0
    ELSE Centred(Len(scores), i) * scores[i + 1] + Sxy(scores, i + 1)

\* LinearRegression.fit of the scores against 0..n-1, by least squares:
\* coef_ and intercept_ as numerators over the common denominator den
fit(scores) ==
    LET n == Len(scores)
        xx == Sxx(n, 0)
        xy == Sxy(scores, 0)
    IN [coef |-> 2 * n * xy,
        intercept |-> Sum(scores) * xx - n * (n - 1) * xy,
        den |-> n * xx]

\* LinearRegression.predict at position x, then np.clip(..., 0, 1)
Clip(num, den) ==
    IF num < 0 THEN 0 ELSE IF num > ScoreUnit * den THEN ScoreUnit * den ELSE num
model_predict(model, x) ==
    <<Clip(model.intercept + model.coef * x, model.den), model.den>>

\* (any rise or fall of the fitted line names the trend)
TrendOfSlopeSign(model) ==
    IF model.coef > 0 THEN "improving"
    ELSE IF model.coef < 0 THEN "declining"
    ELSE "stable"

\* slope > 0.01, slope < -0.01, else stable; the slope is
\* coef / (den * ScoreUnit)
TrendOf(model) ==
    IF model.coef * 100 > model.den * ScoreUnit THEN "improving"
    ELSE IF model.coef * 100 < -(model.den * ScoreUnit) THEN "declining"
    ELSE "stable"

\* (the regression run from 2 points on)
TooFewPointsForLine(n) == n < 2

\* len(sentiment_scores) < 3
TooFewPoints(n) == n < 3

\* predict_trend; fit_raises: the regression path raises
predict_trend(scores, forecast_days, fit_raises) ==
    IF TooFewPoints(Len(scores)) THEN Flat(scores, forecast_days)
    ELSE IF fit_raises THEN Flat(scores, forecast_days)
    ELSE LET model == fit(scores)
             n == Len(scores)
         IN [predictions |->
                 [k \in 1..forecast_days |-> model_predict(model, n + k - 1)],
             trend |-> TrendOf(model)]

\* ---------------------------------------------------- services/tools_docs.py
\* the uploaded bytes: parseable by the reader of their format, or not
Contents == {"good", "corrupt"}

\* both catch every Exception and return the error as the document text
extract_from_pdf(c) == IF c = "good" THEN "text" ELSE "error_text"
extract_from_docx(c) == IF c = "good" THEN "text" ELSE "error_text"

EXT_pdf == <<"p", "d", "f">>
EXT_docx == <<"d", "o", "c", "x">>
EXT_doc == <<"d", "o", "c">>
EXT_txt == <<"t", "x", "t">>
EXT_csv == <<"c", "s", "v">>
EXT_xlsx == <<"x", "l", "s", "x">>
EXT_xls == <<"x", "l", "s">>

\* the outer try/except turns the ValueError of an unsupported type into
\* text as well; decode(errors='ignore') cannot fail
extract_text(c, filename) ==
    LET e == FileExtension(filename)
    IN IF e = EXT_pdf THEN Ok(extract_from_pdf(c))
       ELSE IF e \in {EXT_docx, EXT_doc} THEN Ok(extract_from_docx(c))
       ELSE IF e = EXT_txt THEN Ok("text")
       ELSE Ok("error_text")

\* ---------------------------------------------------- services/tools_data.py
\* logs and re-raises whatever the reader raised
load_data(c, filename, m) ==
    LET e == FileExtension(filename)
    IN IF e \in {EXT_csv, EXT_xlsx, EXT_xls}
       THEN IF c = "good" THEN Ok("df") ELSE Raise(m)
       ELSE Raise("Unsupported file type")

\* get_statistics returns {} on any error
get_statistics(fails) == IF fails THEN "empty" ELSE "stats"

\* stats['shape'] without a guard
format_stats_for_display(stats) ==
    IF stats = "empty" THEN Raise(KeyErrorShape) ELSE Ok("stats_text")

\* `for col in numeric_df.columns[:3]`
TrendColumns == 3

\* the cells of a column that are not missing
CellValues == {0, 1}

RECURSIVE SumSq(_)
SumSq(ys) == IF ys = <<>> THEN 0 ELSE ys[1] * ys[1] + SumSq(Tail(ys))

\* n (n - 1) times the square of values.std(), the sample deviation
Syy(values) == Len(values) * SumSq(values) - Sum(values) * Sum(values)

\* (a column of 10 values examined)
EnoughValuesFromTen(n) == n >= 10

\* `if len(values) > 10:`
EnoughValues(n) == n > 10

\* `abs(slope) > values.std() * 0.01`, both sides squared: the slope of
\* np.polyfit(x, values, 1) against x = 0..n-1 is 2 Sxy / Sxx
SlopeExceeds(values) ==
    LET n == Len(values)
        xx == Sxx(n, 0)
        xy == Sxy(values, 0)
    IN xy * xy * n * (n - 1) > (xx * xx * Syy(values)) \div 40000

\* `"increasing" if slope > 0 else "decreasing"`
Direction(values) == IF Sxy(values, 0) > 0 THEN "increasing" ELSE "decreasing"

\* the trend loop of detect_patterns for the column at `position` (from 1)
\* among the numeric columns, `values` its cells after dropna(); aborted:
\* the correlations or an earlier column raised, which ends the detection
\* with what was found so far. Null: no trend reported for the column
detect_trend(position, values, aborted) ==
    IF aborted \/ position > TrendColumns THEN Null
    ELSE IF ~EnoughValues(Len(values)) THEN Null
    ELSE IF SlopeExceeds(values) THEN Direction(values)
    ELSE Null

\* detect_anomalies(data, threshold=2.0)
DefaultThreshold == 2

\* the places (from 1) of data with np.abs((data - mean) / std) > threshold,
\* std the population deviation np.std(data): n^2 std^2 is Syy(data)
detect_anomalies(data, threshold) ==
    LET n == Len(data)
        dev(i) == n * data[i] - Sum(data)
    IN IF n < 3 THEN {}
       ELSE IF Syy(data) = 0 THEN {}
       ELSE {i \in 1..n : dev(i) * dev(i) > threshold * threshold * Syy(data)}

\* (the deviation of the population used in place of the sample's)
ZAboveThreePopulation(values, i) ==
    LET n == Len(values)
        dev == n * values[i] - Sum(values)
    IN dev * dev > 9 * Syy(values)

\* `z_scores > 3` with z_scores = np.abs((values - mean) / std) and std the
\* sample deviation values.std(): n (n - 1) std^2 is Syy(values)
ZAboveThree(values, i) ==
    LET n == Len(values)
        dev == n * values[i] - Sum(values)
    IN dev * dev * (n - 1) > 9 * n * Syy(values)

\* find_anomalies for one column, `values` its cells after dropna(): the
\* places (from 1) of the outliers; the column is reported, with their
\* number and up to three of them, when there is one
find_anomalies(values) ==
    IF ~(Len(values) > 3) THEN {}
    ELSE IF ~(Syy(values) > 0) THEN {}
    ELSE {i \in 1..Len(values) : ZAboveThree(values, i)}

\* -------------------------------------------------- services/tools_report.py
RenderOutcomes == {"ok", "fails"}

\* the file is written and its URL returned, or `except Exception: return ""`
generate_markdown_report(md) == IF md = "ok" THEN "/reports/md" ELSE ""

\* the PDF is written and its URL returned, or `except Exception` returns
\* what generate_markdown_report returns
generate_pdf_report(pdf, md) ==
    IF pdf = "ok" THEN Ok("/reports/pdf") ELSE Ok(generate_markdown_report(md))

\* ------------------------------------------- services/tools_visualization.py
\* every create_*_chart returns "" when rendering raises
create_chart(name, render) == IF render = "ok" THEN name ELSE ""

\* (the chart drawn for an empty list of results)
create_sentiment_chartOfNothing(n, render) == create_chart("sentiment", render)

\* `if not sentiment_data: return ""`
create_sentiment_chart(n, render) ==
    IF n = 0 THEN "" ELSE create_chart("sentiment", render)

\* `if chart: charts.append(chart)`
AppendIfTruthy(charts, chart) == IF chart # "" THEN Append(charts, chart) ELSE charts

\* ------------------------------------------- services/agent_orchestrator.py
\* (completed_at forgotten on the document path)
OnCompletedNoTimestamp(t, k, l) ==
    IF k = "doc"
    THEN [t EXCEPT !.status = COMPLETED, !.summary = l.analysis,
                   !.report_url = l.report_url,
                   !.task_metadata = [present |-> TRUE, count |-> 0]]
    ELSE [t EXCEPT !.status = COMPLETED, !.summary = l.analysis,
                   !.report_url = l.report_url,
                   !.charts = [present |-> TRUE, items |-> l.charts],
                   !.completed_at = "utcnow",
                   !.task_metadata = [present |-> TRUE, count |-> Len(l.charts)]]

\* lines 162-173, 262-266, 436-448: the fields set before the completed commit
OnCompleted(t, k, l) ==
    IF k = "text"
    THEN [t EXCEPT !.status = COMPLETED, !.summary = l.analysis,
                   !.sentiment_summary = l.sentiment, !.forecast = l.forecast,
                   !.report_url = l.report_url,
                   !.charts = [present |-> TRUE, items |-> l.charts],
                   !.completed_at = "utcnow",
                   !.task_metadata = [present |-> TRUE, count |-> l.n]]
    ELSE IF k = "doc"
    THEN [t EXCEPT !.status = COMPLETED, !.summary = l.analysis,
                   !.report_url = l.report_url, !.completed_at = "utcnow",
                   !.task_metadata = [present |-> TRUE, count |-> 0]]
    ELSE [t EXCEPT !.status = COMPLETED, !.summary = l.analysis,
                   !.report_url = l.report_url,
                   !.charts = [present |-> TRUE, items |-> l.charts],
                   !.completed_at = "utcnow",
                   !.task_metadata = [present |-> TRUE, count |-> Len(l.charts)]]

\* (status left as it was)
OnFailureKeepsStatus(t, msg) ==
    [t EXCEPT !.error = msg, !.completed_at = "utcnow"]

\* (the message wrapped instead of stored as it is)
OnFailureWrapsMessage(t, msg) ==
    [t EXCEPT !.status = FAILED, !.error = "Analysis failed", !.completed_at = "utcnow"]

\* lines 193-195, 283-285, 466-468: the fields set by `except Exception as e`
OnFailure(t, msg) ==
    [t EXCEPT !.status = FAILED, !.error = msg, !.completed_at = "utcnow"]

\* (raise before the commit)
FailureCommitSkipped(row, t) == row

\* self.db.commit() of the except block (lines 196, 286, 469): the row takes
\* the object's state
FailureCommit(row, t) == t

\* self.db.add(task); self.db.commit() and the commit of the completed state
Commit(row, t) == t

\* the statement groups of the guarded block that run code outside any
\* tool's own try/except and so can raise into the orchestrator
Unguarded(stage) ==
    stage \in {"analyze_news", "generate_report", "analyze_data", "charts",
               "build_response"}

Escapes(stage) == IF Unguarded(stage) THEN {Null} \cup Msgs ELSE {Null}

FirstStage(k) ==
    IF k = "text" THEN "interpret"
    ELSE IF k = "doc" THEN "extract_text"
    ELSE "load_data"

\* ------------------------------------------------------------------ state
VARIABLES
    pc,        \* where each request is
    kind,      \* the endpoint it called
    filename,  \* file.filename of its upload
    client,    \* whether its LLMClient has an OpenAI client
    loc,       \* the local variables of its execute_* call
    task,      \* its Task object in the session
    store,     \* the committed row of its task (NoTask: none)
    raised,    \* the exception it raised last
    resp,      \* the status code it answered with (0: not yet)
    trace,     \* the statement groups of the guarded block it has run
    planner,   \* one call of LLMClient.interpret_task: inputs and result
    scoring,   \* one call of SentimentMLModel.predict: inputs and result
    averaging, \* Steps 3 and 4 alone: the articles' results, their aggregate
    trending,  \* one call of TrendForecastModel.predict_trend
    forecasting, \* the TrendForecastModel instances and the calls in progress
    loading,   \* the construction of the two engines and their model files
    detecting, \* one call of DataAnalysisTool.detect_patterns on one column
    flagging   \* one series given to both anomaly detectors

\* the state of the requests, and the state of the calls examined on their own
reqvars == <<pc, kind, filename, client, loc, task, store, raised, resp, trace>>
aux == <<planner, scoring, averaging, trending, forecasting, loading,
        detecting, flagging>>
vars == <<reqvars, aux>>

\* no call under examination
NoCall == [pc |-> "none"]

Locals0 ==
    [content |-> Null, plan |-> Null, n |-> 0, sentiment |-> Null,
     charts |-> <<>>, forecast |-> Null, text |-> Null, analysis |-> Null,
     summary |-> Null, report |-> Null, report_url |-> Null,
     numeric |-> 0, date |-> FALSE, ncorr |-> 0, trend_chart |-> Null,
     requested |-> {}, pdf |-> Null]

\* no request has arrived
NoRequests(procs) ==
    /\ pc = [p \in procs |-> "idle"]
    /\ kind = [p \in procs |-> Null]
    /\ filename = [p \in procs |-> NoFile]
    /\ client = [p \in procs |-> FALSE]
    /\ loc = [p \in procs |-> Locals0]
    /\ task = [p \in procs |-> NoTask]
    /\ store = [p \in procs |-> NoTask]
    /\ raised = [p \in procs |-> NoExc]
    /\ resp = [p \in procs |-> 0]
    /\ trace = [p \in procs |-> <<>>]

Init ==
    /\ NoRequests(Procs)
    /\ planner = NoCall
    /\ scoring = NoCall
    /\ averaging = NoCall
    /\ trending = NoCall
    /\ forecasting = NoCall
    /\ loading = NoCall
    /\ detecting = NoCall
    /\ flagging = NoCall

\* a statement group of the guarded block ends: with res raised the control
\* goes to the except block, otherwise to the next group
StageEnds(p, stage, next, res, origin) ==
    /\ trace' = [trace EXCEPT ![p] = Append(@, stage)]
    /\ IF res.exc # Null
       THEN /\ raised' = [raised EXCEPT ![p] =
                             Exc("Exception", 0, res.exc, stage, origin)]
            /\ pc' = [pc EXCEPT ![p] = "except"]
       ELSE /\ pc' = [pc EXCEPT ![p] = next]
            /\ UNCHANGED raised

\* the result of a group: the escape of its unguarded code if there is one,
\* else the result of its call
Outcome(esc, res) == IF esc # Null THEN Raise(esc) ELSE res

\* ------------------------------------------------------ routes_tasks.py
\* a request arrives at analyze_text, analyze_document or analyze_data
Receive(p) ==
    /\ pc[p] = "idle"
    /\ \E k \in Kinds, f \in Filenames, c \in BOOLEAN :
         /\ kind' = [kind EXCEPT ![p] = k]
         /\ filename' = [filename EXCEPT ![p] = IF k = "text" THEN NoFile ELSE f]
         /\ client' = [client EXCEPT ![p] = c]
         /\ pc' = [pc EXCEPT ![p] = IF k = "text" THEN "create" ELSE "validate"]
    /\ UNCHANGED <<loc, task, store, raised, resp, trace>>
    /\ UNCHANGED aux

\* the extension check, inside the handler's try
Validate(p) ==
    /\ pc[p] = "validate"
    /\ IF PassesValidation(kind[p], filename[p])
       THEN /\ pc' = [pc EXCEPT ![p] = "read"]
            /\ UNCHANGED raised
       ELSE /\ raised' = [raised EXCEPT ![p] =
                   Exc("HTTPException", 400, "File type not supported",
                       "validate", "handler")]
            /\ pc' = [pc EXCEPT ![p] = "handler_except"]
    /\ UNCHANGED <<kind, filename, client, loc, task, store, resp, trace>>
    /\ UNCHANGED aux

\* content = await file.read()
ReadFile(p) ==
    /\ pc[p] = "read"
    /\ \E c \in Contents : loc' = [loc EXCEPT ![p].content = c]
    /\ pc' = [pc EXCEPT ![p] = "create"]
    /\ UNCHANGED <<kind, filename, client, task, store, raised, resp, trace>>
    /\ UNCHANGED aux

\* `return result`
HandlerReturn(p) ==
    /\ pc[p] = "returned"
    /\ resp' = [resp EXCEPT ![p] = 200]
    /\ pc' = [pc EXCEPT ![p] = "responded"]
    /\ UNCHANGED <<kind, filename, client, loc, task, store, raised, trace>>
    /\ UNCHANGED aux

\* `except Exception as e` of the handler
HandlerExcept(p) ==
    /\ pc[p] \in {"handler_except", "reraised"}
    /\ resp' = [resp EXCEPT ![p] = HandlerStatus(raised[p])]
    /\ pc' = [pc EXCEPT ![p] = "responded"]
    /\ UNCHANGED <<kind, filename, client, loc, task, store, raised, trace>>
    /\ UNCHANGED aux

\* ------------------------------------------- services/agent_orchestrator.py
\* task = Task(...); self.db.add(task); self.db.commit()
CreateTask(p) ==
    /\ pc[p] = "create"
    /\ task' = [task EXCEPT ![p] = NewTask(kind[p])]
    /\ store' = [store EXCEPT ![TaskId(p)] = Commit(GetTask(store, p), NewTask(kind[p]))]
    /\ pc' = [pc EXCEPT ![p] = FirstStage(kind[p])]
    /\ UNCHANGED <<kind, filename, client, loc, raised, resp, trace>>
    /\ UNCHANGED aux

\* Step 1 of the text pipeline
Interpret(p) ==
    /\ pc[p] = "interpret"
    /\ \E call \in LLMOutcomes, reply \in Replies :
         LET res == PlanSource(client[p], call, reply)
         IN /\ loc' = [loc EXCEPT ![p].plan = res.val]
            /\ StageEnds(p, "interpret", "search_news", res, "llm")
    /\ UNCHANGED <<kind, filename, client, task, store, resp>>
    /\ UNCHANGED aux

\* Step 2: search_news returns [] when the search raises
SearchNews(p) ==
    /\ pc[p] = "search_news"
    /\ \E n \in 0..MaxArticles : loc' = [loc EXCEPT ![p].n = n]
    /\ StageEnds(p, "search_news", "score_sentiment", Ok(Null), "stage")
    /\ UNCHANGED <<kind, filename, client, task, store, resp>>
    /\ UNCHANGED aux

\* Steps 3 and 4: score every article, aggregate
ScoreSentiment(p) ==
    /\ pc[p] = "score_sentiment"
    /\ loc' = [loc EXCEPT ![p].sentiment =
                  IF loc[p].n > 0 THEN "average" ELSE "default"]
    /\ StageEnds(p, "score_sentiment", "sentiment_chart", Ok(Null), "stage")
    /\ UNCHANGED <<kind, filename, client, task, store, resp>>
    /\ UNCHANGED aux

\* Step 5
SentimentChart(p) ==
    /\ pc[p] = "sentiment_chart"
    /\ \E r \in RenderOutcomes :
         loc' = [loc EXCEPT ![p].charts =
                    AppendIfTruthy(<<>>, create_sentiment_chart(loc[p].n, r))]
    /\ StageEnds(p, "sentiment_chart", "forecast", Ok(Null), "stage")
    /\ UNCHANGED <<kind, filename, client, task, store, resp>>
    /\ UNCHANGED aux

\* (the forecast block entered for any scored article)
ShouldForecastAny(n) == n >= 1

\* `if len(sentiment_results) >= 3:`
ShouldForecast(n) == n >= 3

\* Step 6: forecast_sentiment always returns a description; the trend chart
\* is rendered after it and appended when its reference is not ""
Forecast(p) ==
    /\ pc[p] = "forecast"
    /\ \E r \in RenderOutcomes :
         LET trend_chart == create_chart("trend", r)
         IN loc' = [loc EXCEPT ![p] =
                       IF ShouldForecast(loc[p].n)
                       THEN [@ EXCEPT !.forecast = "description",
                                      !.trend_chart = trend_chart,
                                      !.charts = AppendIfTruthy(@, trend_chart)]
                       ELSE [@ EXCEPT !.forecast = ""]]
    /\ StageEnds(p, "forecast", "analyze_news", Ok(Null), "stage")
    /\ UNCHANGED <<kind, filename, client, task, store, resp>>
    /\ UNCHANGED aux

\* Step 7: format_articles_for_analysis, then the narrative
AnalyzeNews(p) ==
    /\ pc[p] = "analyze_news"
    /\ \E esc \in Escapes("analyze_news"), call \in LLMOutcomes :
         LET res == Outcome(esc, analyze_news(client[p], call))
         IN /\ loc' = [loc EXCEPT ![p].analysis = res.val]
            /\ StageEnds(p, "analyze_news", "generate_report", res,
                         IF esc # Null THEN "stage" ELSE "llm")
    /\ UNCHANGED <<kind, filename, client, task, store, resp>>
    /\ UNCHANGED aux

\* Step 8: format_sentiment_summary, then the report text
GenerateReport(p) ==
    /\ pc[p] = "generate_report"
    /\ \E esc \in Escapes("generate_report"), call \in LLMOutcomes :
         LET res == Outcome(esc, generate_report(client[p], call))
         IN /\ loc' = [loc EXCEPT ![p].report = res.val]
            /\ StageEnds(p, "generate_report", "save_report", res,
                         IF esc # Null THEN "stage" ELSE "llm")
    /\ UNCHANGED <<kind, filename, client, task, store, resp>>
    /\ UNCHANGED aux

\* Step 1 of the document pipeline (with extract_sections, which has no
\* effect that is kept)
ExtractText(p) ==
    /\ pc[p] = "extract_text"
    /\ LET res == extract_text(loc[p].content, filename[p])
       IN /\ loc' = [loc EXCEPT ![p].text = res.val]
          /\ StageEnds(p, "extract_text", "analyze_document", res, "stage")
    /\ UNCHANGED <<kind, filename, client, task, store, resp>>
    /\ UNCHANGED aux

\* Step 3 of the document pipeline
AnalyzeDocument(p) ==
    /\ pc[p] = "analyze_document"
    /\ \E call \in LLMOutcomes :
         LET res == analyze_document(client[p], call)
         IN /\ loc' = [loc EXCEPT ![p].analysis = res.val]
            /\ StageEnds(p, "analyze_document", "summarize", res, "llm")
    /\ UNCHANGED <<kind, filename, client, task, store, resp>>
    /\ UNCHANGED aux

\* Step 4 of the document pipeline
Summarize(p) ==
    /\ pc[p] = "summarize"
    /\ \E call \in LLMOutcomes :
         LET res == summarize(client[p], call)
         IN /\ loc' = [loc EXCEPT ![p].summary = res.val]
            /\ StageEnds(p, "summarize", "save_report", res, "llm")
    /\ UNCHANGED <<kind, filename, client, task, store, resp>>
    /\ UNCHANGED aux

\* Step 1 of the data pipeline; the frame's shape comes with it
LoadData(p) ==
    /\ pc[p] = "load_data"
    /\ \E m \in Msgs, nc \in 0..MaxNumericCols, d \in BOOLEAN :
         LET res == load_data(loc[p].content, filename[p], m)
         IN /\ loc' = [loc EXCEPT ![p].numeric = IF res.exc = Null THEN nc ELSE 0,
                                  ![p].date = IF res.exc = Null THEN d ELSE FALSE]
            /\ StageEnds(p, "load_data", "statistics", res, "stage")
    /\ UNCHANGED <<kind, filename, client, task, store, resp>>
    /\ UNCHANGED aux

\* Step 2: get_statistics, format_stats_for_display
Statistics(p) ==
    /\ pc[p] = "statistics"
    /\ \E fails \in BOOLEAN :
         StageEnds(p, "statistics", "detect_patterns",
                   format_stats_for_display(get_statistics(fails)), "stage")
    /\ UNCHANGED <<kind, filename, client, loc, task, store, resp>>
    /\ UNCHANGED aux

\* Steps 3 and 4: detect_patterns and find_anomalies swallow their errors;
\* a correlation pair needs two numeric columns
DetectPatterns(p) ==
    /\ pc[p] = "detect_patterns"
    /\ \E c \in 0..1 :
         loc' = [loc EXCEPT ![p].ncorr = IF loc[p].numeric >= 2 THEN c ELSE 0]
    /\ StageEnds(p, "detect_patterns", "analyze_data", Ok(Null), "stage")
    /\ UNCHANGED <<kind, filename, client, task, store, resp>>
    /\ UNCHANGED aux

\* Step 5: df.head(10).to_string(), then the narrative
AnalyzeData(p) ==
    /\ pc[p] = "analyze_data"
    /\ \E esc \in Escapes("analyze_data"), call \in LLMOutcomes :
         LET res == Outcome(esc, analyze_data(client[p], call))
         IN /\ loc' = [loc EXCEPT ![p].analysis = res.val]
            /\ StageEnds(p, "analyze_data", "charts", res,
                         IF esc # Null THEN "stage" ELSE "llm")
    /\ UNCHANGED <<kind, filename, client, task, store, resp>>
    /\ UNCHANGED aux

\* (the heatmap asked for with a single numeric column)
HeatmapWantedAny(numeric) == numeric >= 1

\* `if len(numeric_cols) >= 2:`
HeatmapWanted(numeric) == numeric >= 2

\* Step 6: the four charts, in this order; `requested` keeps which of the
\* create_* calls were made
DataCharts(p) ==
    /\ pc[p] = "charts"
    /\ \E esc \in Escapes("charts"), r1, r2, r3, r4 \in RenderOutcomes :
         LET l == loc[p]
             c1 == IF l.numeric > 0
                   THEN AppendIfTruthy(<<>>, create_chart("distribution", r1))
                   ELSE <<>>
             c2 == IF HeatmapWanted(l.numeric)
                   THEN AppendIfTruthy(c1, create_chart("correlation", r2))
                   ELSE c1
             c3 == IF l.date /\ l.numeric > 0
                   THEN AppendIfTruthy(c2, create_chart("timeseries", r3))
                   ELSE c2
             c4 == IF l.ncorr > 0
                   THEN AppendIfTruthy(c3, create_chart("bar", r4))
                   ELSE c3
             asked == (IF l.numeric > 0 THEN {"distribution"} ELSE {})
                      \cup (IF HeatmapWanted(l.numeric) THEN {"correlation"} ELSE {})
                      \cup (IF l.date /\ l.numeric > 0 THEN {"timeseries"} ELSE {})
                      \cup (IF l.ncorr > 0 THEN {"bar"} ELSE {})
         IN /\ loc' = [loc EXCEPT ![p].charts = IF esc = Null THEN c4 ELSE <<>>,
                                  ![p].requested = IF esc = Null THEN asked ELSE {}]
            /\ StageEnds(p, "charts", "save_report", Outcome(esc, Ok(Null)), "stage")
    /\ UNCHANGED <<kind, filename, client, task, store, resp>>
    /\ UNCHANGED aux

\* generate_pdf_report, common to the three pipelines; `pdf` keeps whether
\* the PDF was rendered
SaveReport(p) ==
    /\ pc[p] = "save_report"
    /\ \E pdf \in RenderOutcomes, md \in RenderOutcomes :
         LET res == generate_pdf_report(pdf, md)
         IN /\ loc' = [loc EXCEPT ![p].report_url = res.val, ![p].pdf = pdf]
            /\ StageEnds(p, "save_report", "complete", res, "stage")
    /\ UNCHANGED <<kind, filename, client, task, store, resp>>
    /\ UNCHANGED aux

\* task.status = COMPLETED ...; self.db.commit()
CommitCompleted(p) ==
    /\ pc[p] = "complete"
    /\ LET t == OnCompleted(task[p], kind[p], loc[p])
       IN /\ task' = [task EXCEPT ![p] = t]
          /\ store' = [store EXCEPT ![TaskId(p)] = Commit(GetTask(store, p), t)]
    /\ StageEnds(p, "complete", "build_response", Ok(Null), "stage")
    /\ UNCHANGED <<kind, filename, client, loc, resp>>
    /\ UNCHANGED aux

\* return TaskResponse(...): still inside the try
BuildResponse(p) ==
    /\ pc[p] = "build_response"
    /\ \E esc \in Escapes("build_response") :
         StageEnds(p, "build_response", "returned", Outcome(esc, Ok(Null)), "stage")
    /\ UNCHANGED <<kind, filename, client, loc, task, store, resp>>
    /\ UNCHANGED aux

\* except Exception as e: ...; self.db.commit(); raise
ExceptBlock(p) ==
    /\ pc[p] = "except"
    /\ LET t == OnFailure(task[p], raised[p].msg)
       IN /\ task' = [task EXCEPT ![p] = t]
          /\ store' = [store EXCEPT ![TaskId(p)] = FailureCommit(GetTask(store, p), t)]
    /\ pc' = [pc EXCEPT ![p] = "reraised"]
    /\ UNCHANGED <<kind, filename, client, loc, raised, resp, trace>>
    /\ UNCHANGED aux

Next ==
    \E p \in Procs :
        \/ Receive(p)
        \/ Validate(p)
        \/ ReadFile(p)
        \/ HandlerReturn(p)
        \/ HandlerExcept(p)
        \/ CreateTask(p)
        \/ Interpret(p)
        \/ SearchNews(p)
        \/ ScoreSentiment(p)
        \/ SentimentChart(p)
        \/ Forecast(p)
        \/ AnalyzeNews(p)
        \/ GenerateReport(p)
        \/ ExtractText(p)
        \/ AnalyzeDocument(p)
        \/ Summarize(p)
        \/ LoadData(p)
        \/ Statistics(p)
        \/ DetectPatterns(p)
        \/ AnalyzeData(p)
        \/ DataCharts(p)
        \/ SaveReport(p)
        \/ CommitCompleted(p)
        \/ BuildResponse(p)
        \/ ExceptBlock(p)

Spec == Init /\ [][Next]_vars

\* ------------------------------------------- LLMClient.interpret_task alone
\* a call of interpret_task(query) on a client that is present or not, whose
\* completion call answers `reply` or raises
InitPlanner ==
    /\ NoRequests(Procs)
    /\ planner \in [pc : {"called"}, query : Queries, client : BOOLEAN,
                    call : LLMOutcomes, reply : Replies, result : {Ok(Null)}]
    /\ scoring = NoCall
    /\ averaging = NoCall
    /\ trending = NoCall
    /\ forecasting = NoCall
    /\ loading = NoCall
    /\ detecting = NoCall
    /\ flagging = NoCall

InterpretTask ==
    /\ planner.pc = "called"
    /\ planner' = [planner EXCEPT
                      !.pc = "returned",
                      !.result = interpret_task(planner.client, planner.call,
                                                planner.reply, planner.query)]
    /\ UNCHANGED <<reqvars, scoring, averaging, trending, forecasting, loading, detecting,
                 flagging>>

NextPlanner == InterpretTask

SpecPlanner == InitPlanner /\ [][NextPlanner]_vars

\* ------------------------------------------- SentimentMLModel.predict alone
\* a call of predict(text): the classifier raises or answers proba and
\* prediction; m are the lexicon words of the text
NoResult == SentimentResult(0, 0, 0, 1, Null, 0)

InitSentiment ==
    /\ NoRequests(Procs)
    /\ planner = NoCall
    /\ averaging = NoCall
    /\ trending = NoCall
    /\ forecasting = NoCall
    /\ loading = NoCall
    /\ detecting = NoCall
    /\ flagging = NoCall
    /\ \E raises \in BOOLEAN, proba \in Probas, m \in Matches :
         \E prediction \in Predictions(proba) :
            /\ raises => (proba = <<0, 0, ProbScale>> /\ prediction = 2)
            /\ ~raises => m = [pos |-> 0, neg |-> 0, neu |-> 0,
                               contrast |-> FALSE, record |-> FALSE,
                               sharp |-> FALSE, profit_taking |-> FALSE]
            /\ scoring = [pc |-> "called", raises |-> raises, proba |-> proba,
                          prediction |-> prediction, m |-> m,
                          result |-> NoResult]

Predict ==
    /\ scoring.pc = "called"
    /\ scoring' = [scoring EXCEPT
                      !.pc = "returned",
                      !.result = predict(scoring.raises, scoring.proba,
                                         scoring.prediction, scoring.m)]
    /\ UNCHANGED <<reqvars, planner, averaging, trending, forecasting, loading, detecting,
                 flagging>>

NextSentiment == Predict

SpecSentiment == InitSentiment /\ [][NextSentiment]_vars

\* ------------------------------- Steps 3 and 4 of the text pipeline alone
\* the articles are scored one by one by the classifier, then aggregated
NoAggregate ==
    [positive |-> 0, neutral |-> 0, negative |-> 0, den |-> 1,
     overall |-> Null, confidence |-> 0]

\* the class predict picks when several are maximal: the first
FirstPrediction(proba) ==
    CHOOSE c \in Predictions(proba) : \A d \in Predictions(proba) : c <= d

NoMatches ==
    [pos |-> 0, neg |-> 0, neu |-> 0, contrast |-> FALSE, record |-> FALSE,
     sharp |-> FALSE, profit_taking |-> FALSE]

InitAggregate ==
    /\ NoRequests(Procs)
    /\ planner = NoCall
    /\ scoring = NoCall
    /\ averaging = [pc |-> "scoring", results |-> <<>>, out |-> NoAggregate]
    /\ trending = NoCall
    /\ forecasting = NoCall
    /\ loading = NoCall
    /\ detecting = NoCall
    /\ flagging = NoCall

ScoreArticle ==
    /\ averaging.pc = "scoring"
    /\ Len(averaging.results) < MaxArticles
    /\ \E proba \in Probas :
         averaging' = [averaging EXCEPT !.results =
             Append(@, predict(FALSE, proba, FirstPrediction(proba), NoMatches))]
    /\ UNCHANGED <<reqvars, planner, scoring, trending, forecasting, loading, detecting,
                 flagging>>

Aggregate ==
    /\ averaging.pc = "scoring"
    /\ averaging' = [averaging EXCEPT !.pc = "aggregated",
                                     !.out = aggregate(averaging.results)]
    /\ UNCHANGED <<reqvars, planner, scoring, trending, forecasting, loading, detecting,
                 flagging>>

NextAggregate == ScoreArticle \/ Aggregate

SpecAggregate == InitAggregate /\ [][NextAggregate]_vars

\* ------------------------------- TrendForecastModel.predict_trend alone
\* the caller collects the historical scores, then calls predict_trend
InitTrend ==
    /\ NoRequests(Procs)
    /\ planner = NoCall
    /\ scoring = NoCall
    /\ averaging = NoCall
    /\ trending = [pc |-> "collecting", scores |-> <<>>, forecast_days |-> 0,
                   fit_raises |-> FALSE, result |-> Flat(<<>>, 0)]
    /\ forecasting = NoCall
    /\ loading = NoCall
    /\ detecting = NoCall
    /\ flagging = NoCall

AddScore ==
    /\ trending.pc = "collecting"
    /\ Len(trending.scores) < MaxPoints
    /\ \E y \in ScoreValues :
         trending' = [trending EXCEPT !.scores = Append(@, y)]
    /\ UNCHANGED <<reqvars, planner, scoring, averaging, forecasting, loading, detecting,
                 flagging>>

PredictTrend ==
    /\ trending.pc = "collecting"
    /\ \E d \in Horizons, r \in BOOLEAN :
         /\ r => Len(trending.scores) >= 3
         /\ trending' = [trending EXCEPT
                !.pc = "returned", !.forecast_days = d, !.fit_raises = r,
                !.result = predict_trend(trending.scores, d, r)]
    /\ UNCHANGED <<reqvars, planner, scoring, averaging, forecasting, loading, detecting,
                 flagging>>

NextTrend == AddScore \/ PredictTrend

SpecTrend == InitTrend /\ [][NextTrend]_vars

\* ------------------------------------------- two requests at the same time
\* An analyze_text request and an analyze_document request whose upload has
\* been validated and read; each has its own handler call, its own
\* AgentOrchestrator and its own session. Their statement groups are taken
\* in any order, which covers every way the server can schedule them.
Concurrent == {1, 2}

InitConcurrent ==
    /\ \E c \in BOOLEAN :
         /\ pc = [p \in Concurrent |-> "create"]
         /\ kind = <<"text", "doc">>
         /\ filename = <<NoFile, F_pdf>>
         /\ client = <<c, FALSE>>
         /\ loc = <<Locals0, [Locals0 EXCEPT !.content = "good"]>>
         /\ task = [p \in Concurrent |-> NoTask]
         /\ store = [p \in Concurrent |-> NoTask]
         /\ raised = [p \in Concurrent |-> NoExc]
         /\ resp = [p \in Concurrent |-> 0]
         /\ trace = [p \in Concurrent |-> <<>>]
    /\ planner = NoCall
    /\ scoring = NoCall
    /\ averaging = NoCall
    /\ trending = NoCall
    /\ forecasting = NoCall
    /\ loading = NoCall
    /\ detecting = NoCall
    /\ flagging = NoCall

NextConcurrent ==
    \E p \in Concurrent :
        \/ CreateTask(p)
        \/ Interpret(p)
        \/ SearchNews(p)
        \/ ScoreSentiment(p)
        \/ SentimentChart(p)
        \/ Forecast(p)
        \/ AnalyzeNews(p)
        \/ GenerateReport(p)
        \/ ExtractText(p)
        \/ AnalyzeDocument(p)
        \/ Summarize(p)
        \/ SaveReport(p)
        \/ CommitCompleted(p)
        \/ BuildResponse(p)
        \/ ExceptBlock(p)
        \/ HandlerReturn(p)
        \/ HandlerExcept(p)

SpecConcurrent == InitConcurrent /\ [][NextConcurrent]_vars

\* ------------------------------- Step 6 of two text requests at a time
\* Each request's orchestrator builds its own TrendForecastModel, whose
\* load_or_create_model unpickles or creates its own LinearRegression. In
\* Step 6 a request calls predict_trend twice on it with the same scores:
\* through forecast_sentiment, then directly. The fit, the predict and the
\* read of coef_ of a call are separate steps, taken in any order with the
\* steps of the other request.
Unfitted == [coef |-> 0, intercept |-> 0, den |-> 0]
HistoryValues == {0, 500, 1000}
Histories == [1..3 -> HistoryValues]

\* (one model object for all requests)
InstanceShared(p) == 1

\* self.forecast_model = TrendForecastModel() in AgentOrchestrator.__init__
Instance(p) == p

NotCalled ==
    [pc |-> "idle", scores |-> <<>>, calls |-> 0, predictions |-> <<>>,
     trend |-> Null]

InitForecasting ==
    /\ NoRequests(Procs)
    /\ planner = NoCall
    /\ scoring = NoCall
    /\ averaging = NoCall
    /\ trending = NoCall
    /\ forecasting = [model |-> [i \in Concurrent |-> Unfitted],
                      call |-> [p \in Concurrent |-> NotCalled]]
    /\ loading = NoCall
    /\ detecting = NoCall
    /\ flagging = NoCall

\* historical scores of 3 articles; forecast_sentiment calls predict_trend
EnterForecast(p) ==
    /\ forecasting.call[p].pc = "idle"
    /\ \E ys \in Histories :
         forecasting' = [forecasting EXCEPT
             !.call[p] = [NotCalled EXCEPT !.pc = "called", !.scores = ys,
                                           !.calls = 1]]
    /\ UNCHANGED <<reqvars, planner, scoring, averaging, trending, loading,
                 detecting, flagging>>

\* self.model.fit(X, y)
FitModel(p) ==
    /\ forecasting.call[p].pc = "called"
    /\ forecasting' = [forecasting EXCEPT
           !.model[Instance(p)] = fit(forecasting.call[p].scores),
           !.call[p].pc = "fitted"]
    /\ UNCHANGED <<reqvars, planner, scoring, averaging, trending, loading,
                 detecting, flagging>>

\* predictions = np.clip(self.model.predict(future_X), 0, 1)
ModelPredict(p) ==
    /\ forecasting.call[p].pc = "fitted"
    /\ LET n == Len(forecasting.call[p].scores)
           model == forecasting.model[Instance(p)]
       IN forecasting' = [forecasting EXCEPT
              !.call[p].predictions =
                  [k \in 1..ForecastDays |-> model_predict(model, n + k - 1)],
              !.call[p].pc = "predicted"]
    /\ UNCHANGED <<reqvars, planner, scoring, averaging, trending, loading,
                 detecting, flagging>>

\* slope = self.model.coef_[0], the label, the return
ReadSlope(p) ==
    /\ forecasting.call[p].pc = "predicted"
    /\ forecasting' = [forecasting EXCEPT
           !.call[p].trend = TrendOf(forecasting.model[Instance(p)]),
           !.call[p].pc = "returned"]
    /\ UNCHANGED <<reqvars, planner, scoring, averaging, trending, loading,
                 detecting, flagging>>

\* the orchestrator's own predict_trend(historical_scores, 7)
SecondCall(p) ==
    /\ forecasting.call[p].pc = "returned"
    /\ forecasting.call[p].calls = 1
    /\ forecasting' = [forecasting EXCEPT
           !.call[p].pc = "called", !.call[p].calls = 2,
           !.call[p].predictions = <<>>, !.call[p].trend = Null]
    /\ UNCHANGED <<reqvars, planner, scoring, averaging, trending, loading,
                 detecting, flagging>>

NextForecasting ==
    \E p \in Concurrent :
        \/ EnterForecast(p)
        \/ FitModel(p)
        \/ ModelPredict(p)
        \/ ReadSlope(p)
        \/ SecondCall(p)

SpecForecasting == InitForecasting /\ [][NextForecasting]_vars

\* ------------------------------------ the model files of the two engines
\* AgentOrchestrator.__init__ builds SentimentMLModel() and then
\* TrendForecastModel(); both constructors have the same shape
Engines == <<"sentiment", "forecast">>

\* what is at the model path before the construction: nothing, a file whose
\* content pickle cannot load, a file (or directory) that open() refuses, or
\* a pickled model
FileStates == {"missing", "corrupt", "unreadable", "valid"}

\* open(model_path, 'wb') and pickle.dump, outside any try
WriteOutcomes == {"ok", "fails"}

\* with open(model_path, 'rb') as f: self.model = pickle.load(f)
load_model(file) == IF file = "valid" THEN Ok("loaded") ELSE Raise("load failed")

InitLoading ==
    /\ NoRequests(Procs)
    /\ planner = NoCall
    /\ scoring = NoCall
    /\ averaging = NoCall
    /\ trending = NoCall
    /\ forecasting = NoCall
    /\ detecting = NoCall
    /\ flagging = NoCall
    /\ \E f \in [DOMAIN Engines -> FileStates] :
         loading = [pc |-> [e \in DOMAIN Engines |-> "new"],
                    file0 |-> f, file |-> f,
                    model |-> [e \in DOMAIN Engines |-> Null],
                    writes |-> [e \in DOMAIN Engines |-> 0],
                    raised |-> Null]

\* __init__: self.model = None; the second engine is built when the
\* construction of the first has returned
ModelInit(e) ==
    /\ loading.pc[e] = "new"
    /\ e > 1 => loading.pc[e - 1] = "done"
    /\ loading' = [loading EXCEPT !.pc[e] = "exists"]
    /\ UNCHANGED <<reqvars, planner, scoring, averaging, trending, forecasting,
                 detecting, flagging>>

\* load_or_create_model: `if os.path.exists(model_path):`
LoadOrCreate(e) ==
    /\ loading.pc[e] = "exists"
    /\ loading' = [loading EXCEPT !.pc[e] =
                      IF loading.file[e] # "missing" THEN "load" ELSE "create"]
    /\ UNCHANGED <<reqvars, planner, scoring, averaging, trending, forecasting,
                 detecting, flagging>>

\* the try of load_or_create_model; `except Exception` calls create_model
LoadModel(e) ==
    /\ loading.pc[e] = "load"
    /\ LET res == load_model(loading.file[e])
       IN loading' = IF res.exc = Null
                     THEN [loading EXCEPT !.model[e] = res.val, !.pc[e] = "done"]
                     ELSE [loading EXCEPT !.pc[e] = "create"]
    /\ UNCHANGED <<reqvars, planner, scoring, averaging, trending, forecasting,
                 detecting, flagging>>

\* create_model: the pipeline fitted on the demo texts, or LinearRegression()
CreateModel(e) ==
    /\ loading.pc[e] = "create"
    /\ loading' = [loading EXCEPT !.model[e] = "fresh", !.pc[e] = "save"]
    /\ UNCHANGED <<reqvars, planner, scoring, averaging, trending, forecasting,
                 detecting, flagging>>

\* create_model: os.makedirs, open(..., 'wb'), pickle.dump; an exception of
\* theirs leaves create_model, load_or_create_model and __init__, and what
\* it leaves at the path is the file as it was or a truncated one
SaveModel(e) ==
    /\ loading.pc[e] = "save"
    /\ \E w \in WriteOutcomes :
         IF w = "ok"
         THEN loading' = [loading EXCEPT !.file[e] = "valid",
                                         !.writes[e] = @ + 1,
                                         !.pc[e] = "done"]
         ELSE \E left \in {loading.file[e], "corrupt"} :
                loading' = [loading EXCEPT !.file[e] = left,
                                           !.raised = "OSError",
                                           !.pc[e] = "raised"]
    /\ UNCHANGED <<reqvars, planner, scoring, averaging, trending, forecasting,
                 detecting, flagging>>

NextLoading ==
    \E e \in DOMAIN Engines :
        \/ ModelInit(e)
        \/ LoadOrCreate(e)
        \/ LoadModel(e)
        \/ CreateModel(e)
        \/ SaveModel(e)

SpecLoading == InitLoading /\ [][NextLoading]_vars

\* --------------------------------- DataAnalysisTool.detect_patterns alone
\* one numeric column of the frame: its place among the numeric columns,
\* its cells that are not missing, how many are missing
InitDetecting ==
    /\ NoRequests(Procs)
    /\ planner = NoCall
    /\ scoring = NoCall
    /\ averaging = NoCall
    /\ trending = NoCall
    /\ forecasting = NoCall
    /\ loading = NoCall
    /\ flagging = NoCall
    /\ \E position \in 1..(TrendColumns + 1), missing \in 0..1, aborted \in BOOLEAN :
         detecting = [pc |-> "loading", position |-> position,
                      values |-> <<>>, missing |-> missing,
                      aborted |-> aborted, trend |-> Null]

\* one more row with a value in the column
AddValue ==
    /\ detecting.pc = "loading"
    /\ Len(detecting.values) < MaxValues
    /\ \E y \in CellValues :
         detecting' = [detecting EXCEPT !.values = Append(@, y)]
    /\ UNCHANGED <<reqvars, planner, scoring, averaging, trending, forecasting,
                 loading, flagging>>

\* patterns = self.data_tool.detect_patterns(df)
DetectTrends ==
    /\ detecting.pc = "loading"
    /\ detecting' = [detecting EXCEPT
                        !.pc = "returned",
                        !.trend = detect_trend(detecting.position,
                                               detecting.values,
                                               detecting.aborted)]
    /\ UNCHANGED <<reqvars, planner, scoring, averaging, trending, forecasting,
                 loading, flagging>>

NextDetecting == AddValue \/ DetectTrends

SpecDetecting == InitDetecting /\ [][NextDetecting]_vars

\* ------------------------------------------- the anomaly detectors alone
\* the points of a series other than the outlier, in non-decreasing order
\* (the detectors do not depend on the order), and the values an outlier
\* can take
BaseValues == {-1, 0, 1}
OutlierValues == 1..12

\* x is at the mean of base plus 10 times its deviation, the population's
\* or the sample's
AtTenDeviations(base, x) ==
    LET m == Len(base)
        dev == m * x - Sum(base)
    IN /\ m >= 2
       /\ dev > 0
       /\ \/ dev * dev = 100 * Syy(base)
          \/ dev * dev * (m - 1) = 100 * m * Syy(base)

InsertAt(s, k, x) == SubSeq(s, 1, k - 1) \o <<x>> \o SubSeq(s, k, Len(s))

InitFlagging ==
    /\ NoRequests(Procs)
    /\ planner = NoCall
    /\ scoring = NoCall
    /\ averaging = NoCall
    /\ trending = NoCall
    /\ forecasting = NoCall
    /\ loading = NoCall
    /\ detecting = NoCall
    /\ flagging = [pc |-> "building", data |-> <<>>, at |-> 0,
                   detected |-> {}, found |-> {}]

\* one more point of the series
AddPoint ==
    /\ flagging.pc = "building"
    /\ Len(flagging.data) < MaxSeries
    /\ \E y \in BaseValues :
         /\ flagging.data # <<>> => y >= flagging.data[Len(flagging.data)]
         /\ flagging' = [flagging EXCEPT !.data = Append(@, y)]
    /\ UNCHANGED <<reqvars, planner, scoring, averaging, trending, forecasting,
                 loading, detecting>>

\* one value at mean + 10 std of the others, at any place of the series
PlaceOutlier ==
    /\ flagging.pc = "building"
    /\ Len(flagging.data) < MaxSeries
    /\ \E x \in OutlierValues, k \in 1..(Len(flagging.data) + 1) :
         /\ AtTenDeviations(flagging.data, x)
         /\ flagging' = [flagging EXCEPT !.pc = "placed",
                                         !.data = InsertAt(@, k, x),
                                         !.at = k]
    /\ UNCHANGED <<reqvars, planner, scoring, averaging, trending, forecasting,
                 loading, detecting>>

\* detect_anomalies(data) and find_anomalies on a frame with this column
DetectAnomalies ==
    /\ flagging.pc \in {"building", "placed"}
    /\ flagging' = [flagging EXCEPT
                       !.pc = "returned",
                       !.detected = detect_anomalies(flagging.data, DefaultThreshold),
                       !.found = find_anomalies(flagging.data)]
    /\ UNCHANGED <<reqvars, planner, scoring, averaging, trending, forecasting,
                 loading, detecting>>

NextFlagging == AddPoint \/ PlaceOutlier \/ DetectAnomalies

SpecFlagging == InitFlagging /\ [][NextFlagging]_vars

\* ----------------------------------------------------------------- claims
Started(p) == task[p] # NoTask

\* the execute_* call of p has returned or raised
ExecEnded(p) == Started(p) /\ pc[p] \in {"returned", "reraised", "responded"}

Unsupported(p) ==
    kind[p] \in {"doc", "data"} /\ ~ExtensionAllowed(kind[p], filename[p])

NonEmpty(e) == e \notin {Null, ""}

\* C1: once a task's persisted status is completed or failed it never
\* changes again, whatever point of the guarded block raises
C1_TerminalStatusIsFinal ==
    [][\A p \in Procs :
          store[p].status \in Terminal => store'[p].status = store[p].status]_vars

\* C2: every execution whose creation write succeeded ends, by returning or
\* by raising, with the persisted status completed or failed
C2_EndsTerminal ==
    \A p \in Procs : ExecEnded(p) => GetTask(store, p).status \in Terminal

C2_Witness ==
    \E p \in Procs :
        /\ pc[p] = "reraised"
        /\ raised[p].at = "load_data"
        /\ GetTask(store, p).status = FAILED

\* C3: when a step raises, no later step of the pipeline runs and the task
\* is persisted failed with the error's message unchanged
C3_FailureAbandonsAndRecords ==
    \A p \in Procs :
        raised[p].cls = "Exception" =>
            /\ trace[p][Len(trace[p])] = raised[p].at
            /\ pc[p] \in {"reraised", "responded"} =>
                  /\ GetTask(store, p).status = FAILED
                  /\ GetTask(store, p).error = raised[p].msg

C3_Witness ==
    \E p \in Procs :
        /\ pc[p] = "responded"
        /\ raised[p].at = "statistics"
        /\ GetTask(store, p).status = FAILED
        /\ GetTask(store, p).error = KeyErrorShape

\* C4: when the API handler observes the error of an execute_* call, the
\* failed record is already committed
C4_FailedCommittedBeforeReraise ==
    \A p \in Procs : pc[p] = "reraised" => GetTask(store, p).status = FAILED

C4_Witness ==
    \E p \in Procs :
        /\ pc[p] = "reraised"
        /\ raised[p].at = "analyze_data"
        /\ GetTask(store, p).status = FAILED

\* C5: in every persisted state of every task, completed_at is set if and
\* only if the status is completed or failed
C5_CompletedAtIffTerminal ==
    \A p \in Procs :
        store[p] # NoTask =>
            (store[p].completed_at # Null <=> store[p].status \in Terminal)

C5_Witness ==
    \E p \in Procs :
        /\ kind[p] = "doc"
        /\ store[p].status = COMPLETED
        /\ store[p].completed_at # Null

\* C6: in every persisted state of every task, the error field is non-empty
\* if and only if the status is failed
C6_ErrorIffFailed ==
    \A p \in Procs :
        store[p] # NoTask =>
            (NonEmpty(store[p].error) <=> store[p].status = FAILED)

\* C7: an upload with an extension off the allow-list is answered with a
\* 400-class rejection, not with the 500 of a task failure
C7_UnsupportedExtensionIs400 ==
    \A p \in Procs : (pc[p] = "responded" /\ Unsupported(p)) => resp[p] = 400

\* C8: a request with an unsupported extension creates no task record and
\* runs no pipeline stage
C8_RejectionLeavesStore ==
    \A p \in Procs :
        Unsupported(p) =>
            /\ store[p] = NoTask
            /\ task[p] = NoTask
            /\ trace[p] = <<>>

C8_Witness ==
    \E p \in Procs :
        /\ pc[p] = "responded"
        /\ Unsupported(p)
        /\ raised[p].code = 400
        /\ store[p] = NoTask

\* C9: a document_analysis task whose text extraction throws ends failed,
\* with a non-empty error and without summary and sentiment
C9_ExtractionFailureFails ==
    \A p \in Procs :
        (kind[p] = "doc" /\ loc[p].text = "error_text" /\ ExecEnded(p)) =>
            /\ store[p].status = FAILED
            /\ NonEmpty(store[p].error)
            /\ store[p].summary = Null
            /\ store[p].sentiment_summary = Null

C11_CreatedProcessingBeforeStages ==
    /\ [](\A p \in Procs :
            /\ trace[p] # <<>> => store[p] # NoTask
            /\ store[p] # NoTask =>
                  store[p].status \in {PROCESSING, COMPLETED, FAILED})
    /\ [][\A p \in Procs :
            /\ (store[p] = NoTask /\ store'[p] # NoTask) =>
                  /\ store'[p].status = PROCESSING
                  /\ trace[p] = <<>>
                  /\ trace'[p] = <<>>
            /\ (store[p] # NoTask /\ store'[p] # store[p]) =>
                  store'[p].status \in Terminal]_vars

C11_Witness ==
    \E p \in Procs :
        /\ pc[p] = "forecast"
        /\ trace[p] = <<"interpret", "search_news", "score_sentiment",
                        "sentiment_chart">>
        /\ store[p].status = PROCESSING

\* the statement group g of the guarded block of p has run
HasRun(p, g) == \E i \in 1..Len(trace[p]) : trace[p][i] = g

\* in the sequence cs every "sentiment" comes before every "trend"
SentimentFirst(cs) ==
    \A i, j \in 1..Len(cs) :
        (cs[i] = "sentiment" /\ cs[j] = "trend") => i < j

InSeq(cs, c) == \E i \in 1..Len(cs) : cs[i] = c

\* C20: in a news task the forecast description is produced and the trend
\* chart is rendered exactly when at least 3 articles were scored; with fewer
\* the forecast is empty and no trend chart is rendered; the trend chart is
\* in the charts sequence exactly when its rendering returned a reference,
\* and there it comes after the sentiment chart
C20_ForecastIffThreeArticles ==
    \A p \in Procs :
        (kind[p] = "text" /\ HasRun(p, "forecast")) =>
            /\ loc[p].n >= 3 <=>
                  (loc[p].forecast = "description" /\ loc[p].trend_chart # Null)
            /\ loc[p].n < 3 =>
                  /\ loc[p].forecast = ""
                  /\ loc[p].trend_chart = Null
                  /\ ~InSeq(loc[p].charts, "trend")
            /\ InSeq(loc[p].charts, "trend") <=> loc[p].trend_chart = "trend"
            /\ SentimentFirst(loc[p].charts)
            /\ store[p].status = COMPLETED =>
                  /\ store[p].charts.items = loc[p].charts
                  /\ store[p].forecast = loc[p].forecast

C20_Witness ==
    \E p \in Procs :
        /\ kind[p] = "text"
        /\ loc[p].n = 3
        /\ store[p].status = COMPLETED
        /\ store[p].forecast = "description"
        /\ store[p].charts.items = <<"sentiment", "trend">>

\* the primary strategy of the call has failed: no client, the completion
\* call raised, or the reply is not a JSON object with task_type
PrimaryFailed ==
    \/ ~planner.client
    \/ planner.call = "raises"
    \/ planner.reply \in UnparseableReplies \cup NoTaskTypeReplies

\* C18: interpret_task never raises, and for every failure of the primary
\* strategy (client absent, the call raising, a reply that is not JSON even
\* without its fence, JSON without task_type) it returns the plan of the
\* keyword planner for the same query
C18_InterpretNeverFailsOutward ==
    planner.pc = "returned" =>
        /\ planner.result.exc = Null
        /\ PrimaryFailed =>
              planner.result.val = fallback_interpret(planner.query)
        /\ ~PrimaryFailed => planner.result.val.planner = "llm"

C18_Witness ==
    /\ planner.pc = "returned"
    /\ planner.client
    /\ planner.call = "ok"
    /\ planner.reply = <<FENCE_JSON, "object_no_task_type", FENCE>>
    /\ planner.query = Q_example
    /\ planner.result.val.planner = "fallback"
    /\ planner.result.val.task_type = "news_insight"

\* a cascade as an ordered list of (keywords, result) pairs, the first pair
\* with a keyword in the text wins
RECURSIVE FirstMatch(_, _, _)
FirstMatch(rules, default, text) ==
    IF rules = <<>> THEN default
    ELSE IF AnyIn(rules[1][1], text) THEN rules[1][2]
    ELSE FirstMatch(Tail(rules), default, text)

FocusRules ==
    <<<<HighlightWords, "highlights">>, <<SentimentWords, "sentiment">>,
      <<TrendWords, "trends">>>>
TimeRules ==
    <<<<TodayWords, "today">>, <<RecentWords, "last_3_days">>,
      <<WeekWords, "last_7_days">>, <<MonthWords, "last_30_days">>>>
TypeRules ==
    <<<<NewsWords, <<"news_insight", NewsActions>>>>,
      <<DocumentWords, <<"document_analysis", DocumentActions>>>>,
      <<DataWords, <<"data_analysis", DataActions>>>>>>

\* the plans _fallback_interpret returns for the queries, field by field
FallbackPlanTable ==
    (planner.pc = "returned" /\ planner.result.val.planner = "fallback") =>
        LET plan == planner.result.val
            got == <<plan.analysis_focus, plan.time_range, plan.task_type, Len(plan.entity)>>
            q == planner.query
        IN /\ q = Q_caps => got = <<"sentiment", "last_7_days", "news_insight", 41>>
           /\ q = Q_dataset => got = <<"trends", "last_3_days", "data_analysis", 36>>
           /\ q = Q_paper => got = <<"comprehensive", "last_7_days", "document_analysis", 24>>
           /\ q = Q_monthly => got = <<"comprehensive", "last_30_days", "general_research", 14>>
           /\ q = Q_empty => got = <<"comprehensive", "last_7_days", "general_research", 0>>
           /\ q = Q_newspaper => got = <<"comprehensive", "last_7_days", "news_insight", 19>>
           /\ q = Q_opinion => got = <<"sentiment", "today", "general_research", 46>>
           /\ q = Q_weekly => got = <<"trends", "last_7_days", "data_analysis", 19>>
           /\ q = Q_breaking => got = <<"highlights", "last_7_days", "document_analysis", 57>>
           /\ q = Q_long => got = <<"highlights", "last_30_days", "general_research", 100>>

\* C19: the plan of the keyword planner has analysis_focus, time_range and
\* task_type with its actions equal to the first match of the cascades
\* highlights, sentiment, trends, else comprehensive; today, recent, week,
\* month, else last_7_days; news, document, data, else general_research;
\* entity is the first 100 characters of the query and user_intent the
\* query; "today's big news highlights" gives highlights, today, news_insight
C19_FallbackPlanIsFirstMatch ==
    (planner.pc = "returned" /\ planner.result.val.planner = "fallback") =>
        LET plan == planner.result.val
            q == planner.query
            ql == Lower(q)
        IN /\ plan.analysis_focus = FirstMatch(FocusRules, "comprehensive", ql)
           /\ plan.time_range = FirstMatch(TimeRules, "last_7_days", ql)
           /\ <<plan.task_type, plan.actions>> =
                 FirstMatch(TypeRules, <<"general_research", ResearchActions>>, ql)
           /\ Len(plan.entity) = (IF Len(q) < 100 THEN Len(q) ELSE 100)
           /\ \A i \in 1..Len(plan.entity) : plan.entity[i] = q[i]
           /\ plan.user_intent = q
           /\ q = Q_example =>
                 /\ plan.analysis_focus = "highlights"
                 /\ plan.time_range = "today"
                 /\ plan.task_type = "news_insight"
           /\ FallbackPlanTable

C19_Witness ==
    /\ planner.pc = "returned"
    /\ planner.query = Q_breaking
    /\ planner.result.val.planner = "fallback"
    /\ planner.result.val.analysis_focus = "highlights"
    /\ planner.result.val.time_range = "last_7_days"
    /\ planner.result.val.task_type = "document_analysis"
    /\ planner.result.val.actions = DocumentActions

\* the value of component c of result r is maximal among its three
Maximal(r, c) == r[c] = Max3(r.positive, r.neutral, r.negative)

\* C14: every result of predict, the classifier's or the lexicon's for every
\* combination of match counts, has positive, neutral and negative in
\* [0, 1] and summing to 1, its label naming a component of maximal value
\* and its confidence equal to that value
C14_ResultIsDistribution ==
    scoring.pc = "returned" =>
        LET r == scoring.result
        IN /\ r.den > 0
           /\ \A c \in {"positive", "neutral", "negative"} :
                 0 <= r[c] /\ r[c] <= r.den
           /\ r.positive + r.neutral + r.negative = r.den
           /\ r.label \in {"positive", "neutral", "negative"}
           /\ Maximal(r, r.label)
           /\ r.confidence = r[r.label]

C14_Witness ==
    /\ scoring.pc = "returned"
    /\ scoring.raises
    /\ pos_count(scoring.m) = 3
    /\ neg_count(scoring.m) = 3
    /\ neutral_count(scoring.m) = 0
    /\ scoring.result.label = "positive"
    /\ scoring.result.neutral * 66 = 6 * scoring.result.den

\* how many of the results carry the label l
RECURSIVE Labelled(_, _)
Labelled(results, l) ==
    IF results = <<>> THEN 0
    ELSE (IF results[1].label = l THEN 1 ELSE 0) + Labelled(Tail(results), l)

\* C15: for a non-empty sequence of article results each component of the
\* aggregate is the arithmetic mean of the results' same component, the
\* overall label names a maximal component of that averaged vector and the
\* confidence is that averaged value
C15_AggregateIsComponentMean ==
    (averaging.pc = "aggregated" /\ averaging.results # <<>>) =>
        LET rs == averaging.results
            out == averaging.out
            n == Len(rs)
        IN /\ out.den > 0
           /\ \A c \in {"positive", "neutral", "negative"} :
                 out[c] * (n * ProbScale) = SumOf(rs, c) * out.den
           /\ out.overall \in {"positive", "neutral", "negative"}
           /\ \A c \in {"positive", "neutral", "negative"} :
                 out[out.overall] >= out[c]
           /\ out.confidence = out[out.overall]

\* two of three articles are positive, yet the mean vector is negative, and
\* its confidence 1/2 is not the mean 2/3 of the articles' confidences
C15_Witness ==
    /\ averaging.pc = "aggregated"
    /\ Len(averaging.results) = 3
    /\ Labelled(averaging.results, "positive") = 2
    /\ averaging.out.overall = "negative"
    /\ averaging.out.confidence * 2 = averaging.out.den
    /\ SumOf(averaging.results, "confidence") * 3 = 2 * averaging.out.den

\* the values v and w, pairs of numerator and denominator, are equal
SameValue(v, w) == v[1] * w[2] = w[1] * v[2]

\* C16: with fewer than 3 historical points predict_trend returns exactly
\* forecast_days predictions, all equal to the mean of the input (0.5 for
\* the empty input), and the label stable; the same when the regression
\* path raises
C16_FlatBelowThreePoints ==
    (trending.pc = "returned"
       /\ (Len(trending.scores) < 3 \/ trending.fit_raises)) =>
        LET ys == trending.scores
            mean == IF ys = <<>> THEN <<1, 2>>
                    ELSE <<Sum(ys), Len(ys) * ScoreUnit>>
            ps == trending.result.predictions
        IN /\ Len(ps) = trending.forecast_days
           /\ \A k \in 1..Len(ps) :
                 SameValue(<<ps[k][1], ps[k][2] * ScoreUnit>>, mean)
           /\ trending.result.trend = "stable"

C16_Witness ==
    /\ trending.pc = "returned"
    /\ trending.scores = <<0, 1000>>
    /\ trending.forecast_days = ForecastDays
    /\ Len(trending.result.predictions) = 7
    /\ trending.result.predictions[7] = <<1000, 2>>
    /\ trending.result.trend = "stable"

StrictlyIncreasing(ys) == \A i \in 1..(Len(ys) - 1) : ys[i] < ys[i + 1]
StrictlyDecreasing(ys) == \A i \in 1..(Len(ys) - 1) : ys[i] > ys[i + 1]
AllEqual(ys) == \A i \in 1..(Len(ys) - 1) : ys[i] = ys[i + 1]

\* a call of predict_trend on 3 or more points whose regression ran
Regressed ==
    /\ trending.pc = "returned"
    /\ Len(trending.scores) >= 3
    /\ ~trending.fit_raises

\* C17, as stated: on every strictly increasing input of length >= 3 the
\* label is improving, on every strictly decreasing one declining, on every
\* constant one stable
C17_MonotoneGivesLabel ==
    Regressed =>
        /\ StrictlyIncreasing(trending.scores) =>
              trending.result.trend = "improving"
        /\ StrictlyDecreasing(trending.scores) =>
              trending.result.trend = "declining"
        /\ AllEqual(trending.scores) => trending.result.trend = "stable"

\* C17, amended: a strictly increasing input of length >= 3 has a positive
\* fitted slope and is labelled improving when that slope exceeds 0.01 and
\* stable otherwise; a strictly decreasing one has a negative slope and is
\* labelled declining when the slope is below -0.01 and stable otherwise; a
\* constant one is labelled stable
C17_MonotoneGivesLabelAboveThreshold ==
    Regressed =>
        LET ys == trending.scores
            m == fit(ys)
            steep == m.coef * 100 > m.den * ScoreUnit
            steep_down == m.coef * 100 < -(m.den * ScoreUnit)
        IN /\ m.den > 0
           /\ StrictlyIncreasing(ys) =>
                 /\ m.coef > 0
                 /\ trending.result.trend = IF steep THEN "improving" ELSE "stable"
           /\ StrictlyDecreasing(ys) =>
                 /\ m.coef < 0
                 /\ trending.result.trend =
                       IF steep_down THEN "declining" ELSE "stable"
           /\ AllEqual(ys) => trending.result.trend = "stable"

C17_Witness ==
    /\ Regressed
    /\ trending.scores = <<0, 500, 1000>>
    /\ trending.result.trend = "improving"
    /\ trending.result.predictions[1] = <<24000, 24>>

\* the record request p ends with when it runs alone: made from its own
\* locals and its own exception only
RecordAlone(p) ==
    LET done == OnCompleted(NewTask(kind[p]), kind[p], loc[p])
    IN IF raised[p] = NoExc THEN done
       ELSE IF raised[p].at = "build_response"
            THEN OnFailure(done, raised[p].msg)
            ELSE OnFailure(NewTask(kind[p]), raised[p].msg)

\* the record and the working state of request q are the same before and
\* after the step
Untouched(q) ==
    /\ GetTask(store, q)' = GetTask(store, q)
    /\ task'[q] = task[q]
    /\ loc'[q] = loc[q]
    /\ trace'[q] = trace[q]
    /\ raised'[q] = raised[q]
    /\ resp'[q] = resp[q]

\* C12: in every interleaving of the steps of two tasks, a step of one task
\* leaves the other's record and working state (plan, articles, sentiment,
\* charts) as they were, and each task ends with the record it gets when it
\* runs alone
C12_TasksIndependent ==
    /\ [][\A p, q \in DOMAIN pc :
            (p # q /\ pc'[p] # pc[p]) => (pc'[q] = pc[q] /\ Untouched(q))]_vars
    /\ [](\A p \in DOMAIN pc :
            (pc[p] = "responded" /\ Started(p)) =>
                GetTask(store, p) = RecordAlone(p))

\* both tasks have ended, one completed and one failed, after steps of the
\* two were taken in turn
C12_Witness ==
    /\ pc = <<"responded", "responded">>
    /\ GetTask(store, 1).status = COMPLETED
    /\ GetTask(store, 1).charts.items = <<"sentiment", "trend">>
    /\ GetTask(store, 2).status = FAILED
    /\ GetTask(store, 2).task_type = "doc"
    /\ GetTask(store, 1) = RecordAlone(1)

\* C13: between the fit of a predict_trend call and its predict and its
\* read of the slope no other call fits the same model instance, so the
\* predictions and the label the call returns are those of the fit on its
\* own input
C13_FitPredictAtomic ==
    \A p \in Concurrent :
        LET c == forecasting.call[p]
        IN /\ c.pc \in {"fitted", "predicted"} =>
                 forecasting.model[Instance(p)] = fit(c.scores)
           /\ c.pc \in {"predicted", "returned"} =>
                 c.predictions =
                     predict_trend(c.scores, ForecastDays, FALSE).predictions
           /\ c.pc = "returned" =>
                 c.trend = predict_trend(c.scores, ForecastDays, FALSE).trend

\* request 1 has fitted a falling history and not yet predicted, while
\* request 2 has since fitted a rising one, predicted and returned
C13_Witness ==
    /\ forecasting.call[1].pc = "fitted"
    /\ forecasting.call[1].scores = <<1000, 500, 0>>
    /\ forecasting.call[2].pc = "returned"
    /\ forecasting.call[2].scores = <<0, 500, 1000>>
    /\ forecasting.call[2].trend = "improving"
    /\ forecasting.model[Instance(1)] # forecasting.model[Instance(2)]

\* the place of a chart in the order of Step 6 of the data pipeline
DataChartRank(c) ==
    IF c = "distribution" THEN 1
    ELSE IF c = "correlation" THEN 2
    ELSE IF c = "timeseries" THEN 3
    ELSE IF c = "bar" THEN 4
    ELSE 0

\* the references are those of the four charts, each at most once, in order
InDataOrder(cs) ==
    /\ \A i \in 1..Len(cs) : DataChartRank(cs[i]) >= 1
    /\ \A i, j \in 1..Len(cs) : i < j => DataChartRank(cs[i]) < DataChartRank(cs[j])

\* C21: in a data task the charts are at most four references in the order
\* distribution, correlation, timeseries, bar; the distribution chart is
\* asked for only with a numeric column, the heatmap only with two, the
\* time series only with a date column and a numeric column, the bar chart
\* only with a correlation pair; a chart is in the sequence only if it was
\* asked for; and the persisted charts_generated is the length of the
\* persisted charts
C21_DataChartsOrderedAndCounted ==
    \A p \in Procs :
        kind[p] = "data" =>
            LET l == loc[p]
                row == GetTask(store, p)
            IN /\ InDataOrder(l.charts)
               /\ Len(l.charts) <= 4
               /\ \A i \in 1..Len(l.charts) : l.charts[i] \in l.requested
               /\ "distribution" \in l.requested => l.numeric >= 1
               /\ "correlation" \in l.requested => l.numeric >= 2
               /\ "timeseries" \in l.requested => l.date /\ l.numeric >= 1
               /\ "bar" \in l.requested => l.ncorr >= 1
               /\ row.status = COMPLETED =>
                     /\ row.charts.present
                     /\ row.charts.items = l.charts
                     /\ row.task_metadata.present
                     /\ row.task_metadata.count = Len(row.charts.items)

\* a completed data task with the four charts, and one whose heatmap was
\* asked for and did not render
C21_Witness ==
    \E p \in Procs :
        /\ kind[p] = "data"
        /\ GetTask(store, p).status = COMPLETED
        /\ GetTask(store, p).charts.items =
              <<"distribution", "correlation", "timeseries", "bar">>
        /\ GetTask(store, p).task_metadata.count = 4

\* a single numeric column: the heatmap is neither asked for nor present
C21_WitnessOneColumn ==
    \E p \in Procs :
        /\ kind[p] = "data"
        /\ GetTask(store, p).status = COMPLETED
        /\ loc[p].numeric = 1
        /\ loc[p].requested = {"distribution", "timeseries"}
        /\ GetTask(store, p).charts.items = <<"distribution">>

\* C22: when the PDF rendering fails, generate_pdf_report does not raise, it
\* returns the reference of the markdown report, and the task does not fail
\* at that step
C22_PdfFailureGivesMarkdown ==
    \A p \in Procs :
        loc[p].pdf = "fails" =>
            /\ raised[p].at # "save_report"
            /\ loc[p].report_url = "/reports/md"

\* C23: once the construction of an engine has ended, the engine holds a
\* model; if the file was missing or could not be loaded the model is a
\* fresh one, written once, and the file is valid; if the file was valid
\* the model is the loaded one and nothing was written
C23_EngineHoldsModelAndFileValid ==
    \A e \in DOMAIN Engines :
        loading.pc[e] \in {"done", "raised"} =>
            /\ loading.pc[e] = "done"
            /\ loading.model[e] # Null
            /\ loading.file[e] = "valid"
            /\ IF loading.file0[e] = "valid"
               THEN loading.model[e] = "loaded" /\ loading.writes[e] = 0
               ELSE loading.model[e] = "fresh" /\ loading.writes[e] = 1

\* C24: the label of the lexicon fallback is positive whenever the returned
\* positive probability is the largest of the three, else negative whenever
\* the negative one is, else neutral
C24_LexiconLabelByPriority ==
    (scoring.pc = "returned" /\ scoring.raises) =>
        LET r == scoring.result
        IN r.label = IF Maximal(r, "positive") THEN "positive"
                     ELSE IF Maximal(r, "negative") THEN "negative"
                     ELSE "neutral"

\* the three probabilities equal: the label is positive
C24_Witness ==
    /\ scoring.pc = "returned"
    /\ scoring.raises
    /\ scoring.result.positive = scoring.result.negative
    /\ scoring.result.negative = scoring.result.neutral
    /\ scoring.result.label = "positive"

\* negative and neutral equal and above positive: the label is negative
C24_WitnessNegativeOverNeutral ==
    /\ scoring.pc = "returned"
    /\ scoring.raises
    /\ scoring.result.positive < scoring.result.negative
    /\ scoring.result.negative = scoring.result.neutral
    /\ scoring.result.label = "negative"

\* the floor is the value of neutral_prob before the three are divided by
\* their sum: it applies when the neutral matches are less than a tenth
Floored(m) ==
    10 * neutral_count(m) <
        Max2(pos_count(m) + neg_count(m) + neutral_count(m), 1)

C26_WitnessTenValues ==
    /\ detecting.pc = "returned"
    /\ detecting.position = 1
    /\ ~detecting.aborted
    /\ detecting.values = <<0, 0, 0, 0, 0, 1, 1, 1, 1, 1>>
    /\ SlopeExceeds(detecting.values)
    /\ detecting.trend = Null

\* twelve values with a level line: not reported
C26_WitnessLevel ==
    /\ detecting.pc = "returned"
    /\ detecting.position = 1
    /\ ~detecting.aborted
    /\ detecting.values = <<1, 0, 0, 0, 0, 0, 0, 0, 0, 0, 0, 1>>
    /\ detecting.trend = Null

C27_WitnessFourPoints ==
    /\ flagging.pc = "returned"
    /\ flagging.data = <<-1, 0, 1, 10>>
    /\ flagging.at = 4
    /\ flagging.detected = {}
    /\ flagging.found = {}

\* five equal points: nothing is flagged
C27_WitnessAllEqual ==
    /\ flagging.pc = "returned"
    /\ flagging.data = <<1, 1, 1, 1, 1>>
    /\ flagging.detected = {}
    /\ flagging.found = {}

C29_CompletedHasReport ==
    \A p \in Procs :
        LET row == GetTask(store, p)
        IN row.status = COMPLETED =>
              /\ row.report_url \in {"/reports/pdf", "/reports/md"}
              /\ \A i \in 1..Len(row.charts.items) : row.charts.items[i] # ""

\* the steps between the search and the narrative: scoring, the sentiment
\* chart, the forecast
ArticleSteps == {"search_news", "score_sentiment", "sentiment_chart", "forecast"}

====
